---- MODULE Spec2Model ----
(***************************************************************************)
(* Bias-detection aggregator of backend/bias_aggregator.py: the lazily     *)
(* initialised HEARTS classifier resource and the three-layer aggregation  *)
(* of detect_all_layers.                                                   *)
(*                                                                         *)
(* Python values are represented as follows.                               *)
(*   - an optional value (None, or a dict key that may be absent) is a     *)
(*     sequence of length 0 or 1: None == <<>>, Some(v) == <<v>>;          *)
(*   - a float score in [0,1] is a fixed-point integer with denominator    *)
(*     Unit, chosen so that the scores used here and the means of up to    *)
(*     three of them are exact.                                            *)
(***************************************************************************)
EXTENDS Integers, Sequences, FiniteSets, TLC

VARIABLES
    agg,            \* the BiasAggregator instance (its fields)
    constructed,    \* has BiasAggregator.__init__ run
    init_attempts,  \* history: number of HEARTSDetector(...) constructions started
    init_failed,    \* history: some HEARTSDetector(...) construction raised
    last,           \* history: outcome of the most recently finished detect_all_layers call
    pc,             \* per request thread: position inside detect_all_layers
    local,          \* per request thread: arguments and locals of the running call
    alignments,     \* the list object behind 'framework_alignments' of the latest report
    first,          \* history: per text, the report of the first detect_biases call on it
    report,         \* history: the text and the report of the latest detect_biases return
    issued,         \* number of node ids drawn from uuid4 so far
    requests,       \* number of graph requests answered so far
    response,       \* the latest graph request and the response to it
    nodes,          \* the caller's graph: every node returned so far
    edges,          \* the caller's graph: every edge returned so far
    conversation,   \* the 'conversation' dict of the latest successful bias injection
    sent,           \* the messages of the latest injection's second generator call
    turns,          \* history: the turns of the chain so far, in the order they took place
    injected,       \* history: how the latest inject_bias_llm call ended
    heap,           \* a direct caller's conversation dicts, by object identity
    recon,          \* history: how the latest injection on the present heap ended
    analysis,       \* history: the latest text given to detect_biases and what was found
    now,            \* time.time(), in seconds
    rate_limits,    \* UsageTracker.rate_limits: per identifier, the list of (timestamp, endpoint)
    usage,          \* UsageTracker.usage: per identifier, today's count and cost
    admitted,       \* history: the requests the rate_limit decorator let through
    checked         \* history: the latest request met by the rate_limit decorator

\* the detector's latest report and its histories
detVars == <<alignments, first, report>>

\* the exploration graph as the caller has received it
graphVars == <<issued, requests, response, nodes, edges>>

\* the chain of multi-turn bias injections a caller builds
chainVars == <<conversation, sent, turns, injected>>

\* conversation dicts that refer to each other by reference
reconVars == <<heap, recon>>

\* the detector on texts
textVars == <<analysis>>

\* the usage tracker of security.py
rateVars == <<now, rate_limits, usage, admitted, checked>>

laterVars == <<reconVars, textVars, rateVars>>

otherVars == <<detVars, graphVars, chainVars, laterVars>>

vars == <<agg, constructed, init_attempts, init_failed, last, pc, local, otherVars>>

-----------------------------------------------------------------------------
(* Bounds *)

\* a direct caller holds MaxObjects conversation dicts
MaxObjects == 3

\* the addresses of those dicts
Objects == 1 .. MaxObjects

\* the interpreter raises RecursionError in the frame after RecursionLimit
\* nested calls (CPython: 1000 frames by default, scaled down here)
RecursionLimit == 6

\* the clock stops at MaxClock seconds
MaxClock == 180

\* SecurityConfig.IP_RATE_LIMIT_PER_MINUTE, IP_RATE_LIMIT_PER_HOUR and
\* IP_DAILY_REQUEST_QUOTA are read from the environment (defaults 10, 100 and
\* 200); the limits configured here keep their order
IP_RATE_LIMIT_PER_MINUTE == 2
IP_RATE_LIMIT_PER_HOUR == 3
IP_DAILY_REQUEST_QUOTA == 5

\* the identifiers f"ip:{client_ip}" of the clients
Clients == {"ip:1"}

\* calls are accepted while fewer than MaxAttempts constructions were started
MaxAttempts == 2

\* graph requests are accepted while fewer than MaxRequests were answered
MaxRequests == 2

\* bias injections are chained up to MaxInjections deep
MaxInjections == 3

-----------------------------------------------------------------------------
(* Python values *)

None == <<>>
Some(v) == <<v>>

\* dict.get(key, default) on a key that may be absent
Get(opt, default) == IF opt = None THEN default ELSE opt[1]

\* truth value of an Optional[str]: None and the empty string are false
Truthy(opt) == opt # None /\ opt[1] # ""

\* 300 is the rule score's denominator (hundredths over 3.0), 6 = lcm(1,2,3)
Unit == 300 * 6

\* the float p/100
Pct(p) == p * (Unit \div 100)

RECURSIVE SumScores(_)
\* sum(m['score'] for m in metrics)
SumScores(metrics) ==
    IF metrics = <<>> THEN 0 ELSE Head(metrics).score + SumScores(Tail(metrics))

Min(a, b) == IF a <= b THEN a ELSE b

-----------------------------------------------------------------------------
(* Layer 1: the rule-based detector, bias_detection.py.  A prompt is        *)
(* represented by what the keyword and regex tables find in it: the number  *)
(* of demographic categories with a keyword hit, the set of cognitive-bias  *)
(* types with a pattern hit, and the number of structural types with a hit. *)

Prompts ==
    { [demographic |-> 0, cognitive |-> {}, structural |-> 0],
      [demographic |-> 1, cognitive |-> {"stereotypical_assumption"}, structural |-> 0],
      [demographic |-> 3, cognitive |-> {"leading_question", "framing", "confirmation",
                                         "stereotypical_assumption"}, structural |-> 2] }

\* variant of detect_biases that normalises by the ten indicators the
\* comment of line 294 expects
detect_biases_TenIndicators(prompt) ==
    LET demographic_biases == prompt.demographic
        cognitive_biases   == Cardinality(prompt.cognitive)
        structural_biases  == prompt.structural
        leading_questions  == IF "leading_question" \in prompt.cognitive THEN 1 ELSE 0
        assumption_laden   == IF "stereotypical_assumption" \in prompt.cognitive THEN 1 ELSE 0
        weighted_score == demographic_biases * 30 + cognitive_biases * 25
                          + structural_biases * 20 + leading_questions * 15
                          + assumption_laden * 10
    IN  [ demographic_biases |-> demographic_biases,
          cognitive_biases   |-> prompt.cognitive,
          structural_biases  |-> structural_biases,
          leading_questions  |-> leading_questions,
          assumption_laden   |-> assumption_laden,
          overall_bias_score |-> Min(Unit, (weighted_score * Unit) \div 1000) ]

\* BiasDetector.detect_biases: the findings per category and the weighted score
detect_biases(prompt) ==
    LET demographic_biases == prompt.demographic
        cognitive_biases   == Cardinality(prompt.cognitive)
        structural_biases  == prompt.structural
        leading_questions  == IF "leading_question" \in prompt.cognitive THEN 1 ELSE 0
        assumption_laden   == IF "stereotypical_assumption" \in prompt.cognitive THEN 1 ELSE 0
        \* weights in hundredths
        weighted_score == demographic_biases * 30 + cognitive_biases * 25
                          + structural_biases * 20 + leading_questions * 15
                          + assumption_laden * 10
    IN  [ demographic_biases |-> demographic_biases,
          cognitive_biases   |-> prompt.cognitive,
          structural_biases  |-> structural_biases,
          leading_questions  |-> leading_questions,
          assumption_laden   |-> assumption_laden,
          \* min(1.0, weighted_score / 3.0)
          overall_bias_score |-> Min(Unit, weighted_score * (Unit \div 300)) ]

\* lines 265-273: the frameworks the findings align with.  A demographic
\* finding is classified representational or allocative (lines 208-218).
framework_alignments(prompt) ==
    (IF prompt.demographic > 0 THEN <<"Neumann et al. (FAccT 2025)">> ELSE <<>>)
        \o (IF prompt.cognitive # {} THEN <<"BEATS Framework", "Sun & Kok (2025)">> ELSE <<>>)
        \o (IF prompt.structural > 0 THEN <<"Xu et al. (LREC 2024)">> ELSE <<>>)

\* the report's list is the list object of the previous report
NewAlignments_Kept(previous) == previous

\* line 179: 'framework_alignments': [] is a new list object in every call,
\* whatever the list object of the previous report holds by now
NewAlignments(previous) == <<>>

\* what a detect_biases call hands back: findings, score and the list object
DetectorReturn(prompt) ==
    [ result |-> detect_biases(prompt),
      framework_alignments |-> NewAlignments(alignments) \o framework_alignments(prompt) ]

-----------------------------------------------------------------------------
(* External capabilities: what a call into them can do *)

\* HEARTSDetector(...): returns a detector, or raises an exception e; msg is str(e)
InitErrors == {"", "model not found"}
InitOk == [ok |-> TRUE, msg |-> ""]
InitOutcomes == {InitOk} \cup {[ok |-> FALSE, msg |-> m] : m \in InitErrors}

\* hearts_detector.detect_stereotypes(...): raises, or returns a dict in which
\* 'confidence', 'probabilities' and 'explanation_confidence' may be absent
ClassifierResults ==
    [ is_stereotype : BOOLEAN,
      confidence    : {None, Some(Pct(60)), Some(Pct(90))},
      probabilities : {None, Some(Pct(20)), Some(Pct(90))},
      explanation_confidence : {None, Some(0), Some(Pct(30))} ]
ClassifierRaises == [raises |-> TRUE, result |-> None]
ClassifierOutcomes ==
    {ClassifierRaises}
        \cup {[raises |-> FALSE, result |-> Some(r)] : r \in ClassifierResults}

\* llm_service.evaluate_bias(...): raises, or returns {'evaluation': {...}} whose
\* 'bias_score' comes from the model's JSON: absent, a number, or a value that is
\* not a number (a string, null)
JudgeNotCalled == [raises |-> TRUE, bias_score |-> None, score_is_number |-> TRUE]
JudgeOutcomes ==
    { JudgeNotCalled,
      [raises |-> FALSE, bias_score |-> None, score_is_number |-> TRUE],
      [raises |-> FALSE, bias_score |-> Some(Pct(80)), score_is_number |-> TRUE],
      \* "bias_score": 5 in a JSON reply, or a text reply that scores every
      \* category 5, gives 5.0: nothing clamps it
      [raises |-> FALSE, bias_score |-> Some(Pct(500)), score_is_number |-> TRUE],
      [raises |-> FALSE, bias_score |-> Some(0), score_is_number |-> FALSE] }

\* gemini_confidence_threshold: the default 0.7 and a caller-supplied value
DefaultThreshold == Pct(70)
Thresholds == {DefaultThreshold, Pct(90)}

-----------------------------------------------------------------------------
(* BiasAggregator *)

Detector == "HEARTSDetector"

\* BiasAggregator.__init__, lines 68-74: the fields before the eager
\* initialisation; hearts_enabled and llm_enabled are assigned at lines 84-85
NewAggregator(use_hearts, hearts_available) ==
    [ hearts_detector    |-> None,
      hearts_initialized |-> FALSE,
      hearts_init_error  |-> None,
      use_hearts         |-> use_hearts /\ hearts_available,
      hearts_enabled     |-> FALSE,
      llm_enabled        |-> FALSE ]

\* _initialize_hearts reaches the HEARTSDetector(...) construction (lines 95-103)
AttemptsConstruction(self) ==
    /\ ~self.hearts_initialized
    /\ self.use_hearts
    /\ ~Truthy(self.hearts_init_error)

\* the try body of _initialize_hearts (lines 108-112)
InitSucceeded(self) ==
    [self EXCEPT !.hearts_detector = Some(Detector), !.hearts_initialized = TRUE]

\* the except body of _initialize_hearts (lines 114-122)
InitRaised(self, msg) ==
    [self EXCEPT !.hearts_init_error = Some(msg),
                 !.hearts_detector = None,
                 !.hearts_enabled = FALSE]

\* BiasAggregator._initialize_hearts
_initialize_hearts(self, outcome) ==
    IF ~AttemptsConstruction(self) THEN self
    ELSE IF outcome.ok THEN InitSucceeded(self)
    ELSE InitRaised(self, outcome.msg)

\* layer 2 is entered: `use_hearts and self.use_hearts` (line 159)
HeartsRequested(self, use_hearts) == use_hearts /\ self.use_hearts

\* lines 160-162: lazy initialisation on first use
LazyInit(self, use_hearts, init_outcome) ==
    IF HeartsRequested(self, use_hearts) /\ ~self.hearts_initialized
    THEN _initialize_hearts(self, init_outcome)
    ELSE self

\* a HEARTSDetector(...) construction is started by this call
CallAttemptsConstruction(self, use_hearts) ==
    HeartsRequested(self, use_hearts) /\ ~self.hearts_initialized /\ AttemptsConstruction(self)

\* line 164: the classifier is invoked
ClassifierCalled(self, use_hearts) ==
    HeartsRequested(self, use_hearts) /\ self.hearts_detector # None

\* lines 165-176: hearts_result after the try/except around detect_stereotypes
HeartsResult(self, use_hearts, cls_outcome) ==
    IF ClassifierCalled(self, use_hearts) /\ ~cls_outcome.raises
    THEN cls_outcome.result
    ELSE None

\* lines 177-179: result['hearts_error']
HeartsError(self, use_hearts) ==
    IF HeartsRequested(self, use_hearts) /\ self.hearts_detector = None
       /\ Truthy(self.hearts_init_error)
    THEN Some(self.hearts_init_error[1])
    ELSE None

\* should_validate with the gate written as `<=`
ShouldValidate_AtThreshold(hearts_result, gemini_confidence_threshold) ==
    IF hearts_result # None
    THEN Get(hearts_result[1].confidence, Unit) <= gemini_confidence_threshold
    ELSE TRUE

\* lines 185-188: should_validate
ShouldValidate(hearts_result, gemini_confidence_threshold) ==
    IF hearts_result # None
    THEN Get(hearts_result[1].confidence, Unit) < gemini_confidence_threshold
    ELSE TRUE

\* lines 183-190: the judge is invoked
JudgeCalled(self, use_gemini, hearts_result, gemini_confidence_threshold) ==
    use_gemini /\ self.llm_enabled /\ ShouldValidate(hearts_result, gemini_confidence_threshold)

\* lines 191-197: gemini_result after the try/except around evaluate_bias
GeminiResult(judge_called, judge_outcome) ==
    IF judge_called /\ ~judge_outcome.raises
    THEN Some([bias_score |-> judge_outcome.bias_score,
               score_is_number |-> judge_outcome.score_is_number])
    ELSE None

\* layers_used with the judge's append ahead of the classifier's
LayersUsed_JudgeFirst(hearts_result, gemini_result) ==
    <<"rule-based">>
        \o (IF gemini_result # None THEN <<"Gemini">> ELSE <<>>)
        \o (IF hearts_result # None THEN <<"HEARTS">> ELSE <<>>)

\* result['layers_used'] as appended at lines 154, 171 and 194
LayersUsed(hearts_result, gemini_result) ==
    <<"rule-based">>
        \o (IF hearts_result # None THEN <<"HEARTS">> ELSE <<>>)
        \o (IF gemini_result # None THEN <<"Gemini">> ELSE <<>>)

\* the metrics list with the rule-based entry taking the classifier's
\* confidence once a classifier result exists
BiasMetrics_RuleConfidenceShared(rule_result, hearts_result, gemini_result) ==
    << [judge |-> "Rule-Based Detector",
        score |-> rule_result.overall_bias_score,
        confidence |-> IF hearts_result # None
                       THEN Get(hearts_result[1].confidence, 0) ELSE Unit] >>
        \o (IF hearts_result # None
            THEN << [judge |-> "HEARTS ALBERT-v2",
                     score |-> hearts_result[1].probabilities[1],
                     confidence |-> Get(hearts_result[1].confidence, 0)] >>
            ELSE <<>>)
        \o (IF gemini_result # None
            THEN << [judge |-> "Gemini 2.5 Flash",
                     score |-> Get(gemini_result[1].bias_score, Unit \div 2),
                     confidence |-> Pct(85)] >>
            ELSE <<>>)

\* BiasAggregator._calculate_ensemble_score: the per-judge metrics list
BiasMetrics(rule_result, hearts_result, gemini_result) ==
    << [judge |-> "Rule-Based Detector",
        score |-> rule_result.overall_bias_score,
        confidence |-> Unit] >>
        \o (IF hearts_result # None
            THEN << [judge |-> "HEARTS ALBERT-v2",
                     score |-> hearts_result[1].probabilities[1],
                     confidence |-> Get(hearts_result[1].confidence, 0)] >>
            ELSE <<>>)
        \o (IF gemini_result # None
            THEN << [judge |-> "Gemini 2.5 Flash",
                     score |-> Get(gemini_result[1].bias_score, Unit \div 2),
                     confidence |-> Pct(85)] >>
            ELSE <<>>)

\* hearts_result['probabilities']['Stereotype'] raises KeyError (lines 272, 336, 440)
ProbabilitiesMissing(hearts_result) ==
    hearts_result # None /\ hearts_result[1].probabilities = None

\* sum(...) over the scores raises TypeError (line 219)
ScoreNotSummable(gemini_result) ==
    gemini_result # None /\ ~gemini_result[1].score_is_number

\* the overall score divided by the number of layers that exist rather than
\* by the number of judges that answered
OverallBiasScore_FixedDivisor(bias_metrics) ==
    IF bias_metrics # <<>> THEN SumScores(bias_metrics) \div 3 ELSE 0

\* line 219: mean of the judges' scores
OverallBiasScore(bias_metrics) ==
    IF bias_metrics # <<>> THEN SumScores(bias_metrics) \div Len(bias_metrics) ELSE 0

Max(a, b) == IF a >= b THEN a ELSE b

Abs(a) == IF a >= 0 THEN a ELSE -a

RECURSIVE Sum(_)
\* sum(confidence_scores)
Sum(scores) == IF scores = <<>> THEN 0 ELSE Head(scores) + Sum(Tail(scores))

\* source agreement without the floor of the disagreement branch
SourceAgreement_NoFloor(rule_result, hearts_result) ==
    IF hearts_result = None THEN Unit
    ELSE LET rule_score == rule_result.overall_bias_score
             rule_detects_bias == rule_score > Pct(30)
             hearts_detects_bias == hearts_result[1].is_stereotype
         IN  IF rule_detects_bias = hearts_detects_bias THEN Pct(90)
             ELSE Unit - Abs(rule_score - hearts_result[1].probabilities[1])

\* BiasAggregator._calculate_source_agreement
SourceAgreement(rule_result, hearts_result) ==
    IF hearts_result = None THEN Unit
    ELSE LET rule_score == rule_result.overall_bias_score
             rule_detects_bias == rule_score > Pct(30)
             hearts_detects_bias == hearts_result[1].is_stereotype
         IN  IF rule_detects_bias = hearts_detects_bias THEN Pct(90)
             ELSE Max(Pct(30), Unit - Abs(rule_score - hearts_result[1].probabilities[1]))

\* the confidence_scores list of _calculate_confidence (lines 391-405); a
\* zero explanation_confidence is false in `if hearts_result.get(...)`
ConfidenceScores(rule_result, hearts_result) ==
    (IF hearts_result # None
     THEN <<Get(hearts_result[1].confidence, Unit \div 2)>>
              \o (IF Get(hearts_result[1].explanation_confidence, 0) # 0
                  THEN <<hearts_result[1].explanation_confidence[1]>> ELSE <<>>)
     ELSE <<>>)
        \o <<SourceAgreement(rule_result, hearts_result)>>

\* BiasAggregator._calculate_confidence
Confidence(rule_result, hearts_result) ==
    LET confidence_scores == ConfidenceScores(rule_result, hearts_result)
    IN  IF confidence_scores # <<>>
        THEN Sum(confidence_scores) \div Len(confidence_scores)
        ELSE Unit \div 2

\* lines 199-240: merge, score and return; None stands for an exception
\* propagating out of detect_all_layers.  Of the returned dict the fields
\* rule_based, layers_used, hearts, hearts_error, gemini_validation,
\* bias_metrics, judge_count, judges_used, overall_bias_score, confidence and
\* source_agreement are kept.
Aggregate(rule_result, hearts_result, gemini_result, hearts_error) ==
    IF ProbabilitiesMissing(hearts_result) \/ ScoreNotSummable(gemini_result)
    THEN None
    ELSE LET bias_metrics == BiasMetrics(rule_result, hearts_result, gemini_result)
         IN  Some([ rule_based         |-> rule_result,
                    layers_used        |-> LayersUsed(hearts_result, gemini_result),
                    hearts             |-> hearts_result,
                    hearts_error       |-> hearts_error,
                    gemini_validation  |-> gemini_result,
                    bias_metrics       |-> bias_metrics,
                    judge_count        |-> Len(bias_metrics),
                    judges_used        |-> [i \in 1..Len(bias_metrics) |-> bias_metrics[i].judge],
                    overall_bias_score |-> OverallBiasScore(bias_metrics),
                    confidence         |-> Confidence(rule_result, hearts_result),
                    source_agreement   |-> SourceAgreement(rule_result, hearts_result) ])

-----------------------------------------------------------------------------
(* History of a call, kept next to its result *)

\* the classifier lifecycle as the caller sees it
Lifecycle(self, failed) ==
    IF self.hearts_initialized THEN "READY"
    ELSE IF failed THEN "FAILED"
    ELSE "UNINITIALIZED"

NoCall == [called |-> FALSE]

CallRecord(state_before, use_hearts, use_gemini, threshold, rule_result, attempted, classifier_returned, hearts_result, judge_called, judge_returned, result) ==
    [ called              |-> TRUE,
      state_before        |-> state_before,
      use_hearts          |-> use_hearts,
      use_gemini          |-> use_gemini,
      threshold           |-> threshold,
      rule_result         |-> rule_result,
      attempted           |-> attempted,
      classifier_returned |-> classifier_returned,
      hearts_result       |-> hearts_result,
      judge_called        |-> judge_called,
      judge_returned      |-> judge_returned,
      result              |-> result ]

-----------------------------------------------------------------------------
(* One request at a time: every call runs to completion *)

IdleThread == [at |-> "idle"]
Threads == {"t1", "t2"}

Init ==
    /\ agg = NewAggregator(FALSE, FALSE)
    /\ constructed = FALSE
    /\ init_attempts = 0
    /\ init_failed = FALSE
    /\ last = NoCall
    /\ pc = [t \in Threads |-> "idle"]
    /\ local = [t \in Threads |-> IdleThread]
    /\ alignments = <<>>
    /\ first = [t \in Prompts |-> None]
    /\ report = None
    /\ issued = 0
    /\ requests = 0
    /\ response = [ endpoint |-> "none",
                    built |-> [llm_answer |-> "none", detection |-> "none", raised_in |-> "none"] ]
    /\ nodes = {}
    /\ edges = {}
    /\ conversation = None
    /\ sent = <<>>
    /\ turns = <<>>
    /\ injected = [status |-> "none", n |-> 0, chained_as |-> "none"]
    /\ heap = [a \in Objects |-> None]
    /\ recon = None
    /\ analysis = None
    /\ now = 0
    /\ rate_limits = [c \in Clients |-> <<>>]
    /\ usage = [c \in Clients |-> [count |-> 0, cost |-> 0]]
    /\ admitted = <<>>
    /\ checked = None

\* BiasAggregator.__init__(use_hearts, llm_service, lazy_hearts), with the
\* module-level HEARTS_AVAILABLE
Construct ==
    /\ ~constructed
    /\ \E use_hearts \in BOOLEAN, hearts_available \in BOOLEAN,
          llm_service \in BOOLEAN, lazy_hearts \in BOOLEAN :
        LET self  == NewAggregator(use_hearts, hearts_available)
            eager == use_hearts /\ hearts_available /\ ~lazy_hearts
        IN  \E init_outcome \in (IF eager THEN InitOutcomes ELSE {InitOk}) :
            LET initialised == IF eager THEN _initialize_hearts(self, init_outcome) ELSE self
            IN  /\ agg' = [initialised EXCEPT !.hearts_enabled = initialised.use_hearts,
                                              !.llm_enabled = llm_service]
                /\ init_attempts' = IF eager /\ AttemptsConstruction(self) THEN 1 ELSE 0
                /\ init_failed' = (eager /\ AttemptsConstruction(self) /\ ~init_outcome.ok)
    /\ constructed' = TRUE
    /\ UNCHANGED <<last, pc, local, otherVars>>

\* BiasAggregator.detect_all_layers, run from entry to return (or raise);
\* classifier_outcomes is what a detect_stereotypes call can do
detect_all_layers(prompt, use_hearts, use_gemini, threshold, classifier_outcomes) ==
    /\ constructed
    /\ init_attempts < MaxAttempts
    /\ LET attempted == CallAttemptsConstruction(agg, use_hearts)
       IN \E init_outcome \in (IF attempted THEN InitOutcomes ELSE {InitOk}) :
          LET self == LazyInit(agg, use_hearts, init_outcome)
              cls_called == ClassifierCalled(self, use_hearts)
          IN \E cls_outcome \in (IF cls_called THEN classifier_outcomes
                                 ELSE {ClassifierRaises}) :
             LET rule_result   == detect_biases(prompt)
                 hearts_result == HeartsResult(self, use_hearts, cls_outcome)
                 judge_called  == JudgeCalled(self, use_gemini, hearts_result, threshold)
             IN \E judge_outcome \in (IF judge_called THEN JudgeOutcomes
                                      ELSE {JudgeNotCalled}) :
                LET gemini_result == GeminiResult(judge_called, judge_outcome)
                IN /\ agg' = self
                   /\ init_attempts' = init_attempts + (IF attempted THEN 1 ELSE 0)
                   /\ init_failed' = (init_failed \/ (attempted /\ ~init_outcome.ok))
                   /\ last' = CallRecord(Lifecycle(agg, init_failed), use_hearts, use_gemini,
                                         threshold, rule_result, attempted,
                                         cls_called /\ ~cls_outcome.raises, hearts_result,
                                         judge_called, judge_called /\ ~judge_outcome.raises,
                                         Aggregate(rule_result, hearts_result, gemini_result,
                                                   HeartsError(self, use_hearts)))
    /\ UNCHANGED <<constructed, pc, local>>

\* a request that calls the aggregator
DetectAllLayers(prompt, use_hearts, use_gemini, threshold) ==
    /\ detect_all_layers(prompt, use_hearts, use_gemini, threshold, ClassifierOutcomes)
    /\ UNCHANGED otherVars

Call ==
    \E prompt \in Prompts, use_hearts \in BOOLEAN, use_gemini \in BOOLEAN,
       threshold \in Thresholds :
        DetectAllLayers(prompt, use_hearts, use_gemini, threshold)

Next == Construct \/ Call

Spec == Init /\ [][Next]_vars

-----------------------------------------------------------------------------
(* Concurrent requests: the server's request threads share one aggregator.  *)
(* Each thread runs detect_all_layers statement by statement; a thread      *)
(* switch can happen between any two statements and while                   *)
(* HEARTSDetector(...) loads the model.  The requests are those of the      *)
(* /api/explain handler: use_hearts=True, use_gemini=False.                 *)

ConcPrompt == [demographic |-> 1, cognitive |-> {"stereotypical_assumption"}, structural |-> 0]
ConcClassifierOutcomes ==
    { ClassifierRaises,
      [raises |-> FALSE, result |-> Some([is_stereotype |-> TRUE,
                                          confidence |-> Some(Pct(90)),
                                          probabilities |-> Some(Pct(90)),
                                          explanation_confidence |-> None])] }

Goto(t, label) == pc' = [pc EXCEPT ![t] = label]

\* entry of detect_all_layers: lines 145-158
Enter(t) ==
    /\ constructed
    /\ init_attempts < MaxAttempts
    /\ pc[t] = "idle"
    /\ Goto(t, "L159")
    /\ local' = [local EXCEPT ![t] = [at |-> "call",
                                      state_before |-> Lifecycle(agg, init_failed),
                                      attempted |-> FALSE,
                                      exc |-> None,
                                      classifier_returned |-> FALSE,
                                      hearts_result |-> None,
                                      hearts_error |-> None]]
    /\ UNCHANGED <<agg, constructed, init_attempts, init_failed, last>>

\* line 159: if use_hearts and self.use_hearts
L159(t) ==
    /\ pc[t] = "L159"
    /\ Goto(t, IF HeartsRequested(agg, TRUE) THEN "L161" ELSE "L181")
    /\ UNCHANGED <<agg, constructed, init_attempts, init_failed, last, local>>

\* line 161: if not self._hearts_initialized: self._initialize_hearts()
L161(t) ==
    /\ pc[t] = "L161"
    /\ Goto(t, IF ~agg.hearts_initialized THEN "I95" ELSE "L164")
    /\ UNCHANGED <<agg, constructed, init_attempts, init_failed, last, local>>

\* line 95: if self._hearts_initialized: return
I95(t) ==
    /\ pc[t] = "I95"
    /\ Goto(t, IF agg.hearts_initialized THEN "L164" ELSE "I98")
    /\ UNCHANGED <<agg, constructed, init_attempts, init_failed, last, local>>

\* line 98: if not self.use_hearts: return
I98(t) ==
    /\ pc[t] = "I98"
    /\ Goto(t, IF ~agg.use_hearts THEN "L164" ELSE "I101")
    /\ UNCHANGED <<agg, constructed, init_attempts, init_failed, last, local>>

\* line 101: if self._hearts_init_error: return
I101(t) ==
    /\ pc[t] = "I101"
    /\ Goto(t, IF Truthy(agg.hearts_init_error) THEN "L164" ELSE "I108")
    /\ UNCHANGED <<agg, constructed, init_attempts, init_failed, last, local>>

\* line 108: HEARTSDetector(...) is entered; the model starts loading
I108(t) ==
    /\ pc[t] = "I108"
    /\ Goto(t, "loading")
    /\ init_attempts' = init_attempts + 1
    /\ local' = [local EXCEPT ![t].attempted = TRUE]
    /\ UNCHANGED <<agg, constructed, init_failed, last>>

\* line 108: HEARTSDetector(...) returns and is assigned, or raises
Loaded(t) ==
    /\ pc[t] = "loading"
    /\ \E init_outcome \in InitOutcomes :
        IF init_outcome.ok
        THEN /\ agg' = [agg EXCEPT !.hearts_detector = Some(Detector)]
             /\ Goto(t, "I112")
             /\ UNCHANGED <<init_failed, local>>
        ELSE /\ local' = [local EXCEPT ![t].exc = Some(init_outcome.msg)]
             /\ init_failed' = TRUE
             /\ Goto(t, "I116")
             /\ UNCHANGED agg
    /\ UNCHANGED <<constructed, init_attempts, last>>

\* line 112: self._hearts_initialized = True
I112(t) ==
    /\ pc[t] = "I112"
    /\ agg' = [agg EXCEPT !.hearts_initialized = TRUE]
    /\ Goto(t, "L164")
    /\ UNCHANGED <<constructed, init_attempts, init_failed, last, local>>

\* lines 115-116: self._hearts_init_error = str(e)
I116(t) ==
    /\ pc[t] = "I116"
    /\ agg' = [agg EXCEPT !.hearts_init_error = local[t].exc]
    /\ Goto(t, "I121")
    /\ UNCHANGED <<constructed, init_attempts, init_failed, last, local>>

\* line 121: self.hearts_detector = None
I121(t) ==
    /\ pc[t] = "I121"
    /\ agg' = [agg EXCEPT !.hearts_detector = None]
    /\ Goto(t, "I122")
    /\ UNCHANGED <<constructed, init_attempts, init_failed, last, local>>

\* line 122: self.hearts_enabled = False
I122(t) ==
    /\ pc[t] = "I122"
    /\ agg' = [agg EXCEPT !.hearts_enabled = FALSE]
    /\ Goto(t, "L164")
    /\ UNCHANGED <<constructed, init_attempts, init_failed, last, local>>

\* line 164: if self.hearts_detector is not None
L164(t) ==
    /\ pc[t] = "L164"
    /\ Goto(t, IF agg.hearts_detector # None THEN "L166" ELSE "L177")
    /\ UNCHANGED <<agg, constructed, init_attempts, init_failed, last, local>>

\* lines 165-176: self.hearts_detector is read again and detect_stereotypes
\* called; an AttributeError on None is caught like any other exception
L166(t) ==
    /\ pc[t] = "L166"
    /\ \E cls_outcome \in (IF agg.hearts_detector # None THEN ConcClassifierOutcomes
                           ELSE {ClassifierRaises}) :
        local' = [local EXCEPT ![t].hearts_result = HeartsResult(agg, TRUE, cls_outcome),
                               ![t].classifier_returned =
                                   (ClassifierCalled(agg, TRUE) /\ ~cls_outcome.raises)]
    /\ Goto(t, "L181")
    /\ UNCHANGED <<agg, constructed, init_attempts, init_failed, last>>

\* lines 177-179: elif self._hearts_init_error
L177(t) ==
    /\ pc[t] = "L177"
    /\ local' = [local EXCEPT ![t].hearts_error =
                    IF Truthy(agg.hearts_init_error)
                    THEN Some(agg.hearts_init_error[1]) ELSE None]
    /\ Goto(t, "L181")
    /\ UNCHANGED <<agg, constructed, init_attempts, init_failed, last>>

\* lines 181-240: layer 3 is skipped (use_gemini=False); merge, score, return
L181(t) ==
    /\ pc[t] = "L181"
    /\ LET rule_result == detect_biases(ConcPrompt)
       IN last' = CallRecord(local[t].state_before, TRUE, FALSE, DefaultThreshold,
                             rule_result, local[t].attempted,
                             local[t].classifier_returned, local[t].hearts_result,
                             FALSE, FALSE,
                             Aggregate(rule_result, local[t].hearts_result, None,
                                       local[t].hearts_error))
    /\ Goto(t, "idle")
    /\ local' = [local EXCEPT ![t] = IdleThread]
    /\ UNCHANGED <<agg, constructed, init_attempts, init_failed>>

Step(t) ==
    \/ Enter(t) \/ L159(t) \/ L161(t)
    \/ I95(t) \/ I98(t) \/ I101(t) \/ I108(t) \/ Loaded(t)
    \/ I112(t) \/ I116(t) \/ I121(t) \/ I122(t)
    \/ L164(t) \/ L166(t) \/ L177(t) \/ L181(t)

NextConc == Construct \/ \E t \in Threads : Step(t) /\ UNCHANGED otherVars

SpecConc == Init /\ [][NextConc]_vars

-----------------------------------------------------------------------------
(* The rule-based detector called again and again, directly and from inside  *)
(* the aggregator, on arbitrary texts.  first and report record what each    *)
(* detect_biases call returned at the moment it returned; alignments is the  *)
(* returned list object, which the aggregator goes on to change.             *)

\* the report handed back by a detect_biases call on prompt is recorded
Record(prompt, returned) ==
    /\ report' = Some([prompt |-> prompt, returned |-> returned])
    /\ first' = IF prompt \in DOMAIN first /\ first[prompt] = None
                THEN [first EXCEPT ![prompt] = Some(returned)]
                ELSE first

\* bias_detector.detect_biases(prompt) called on the module-level detector
DetectBiases(prompt) ==
    /\ Record(prompt, DetectorReturn(prompt))
    /\ alignments' = DetectorReturn(prompt).framework_alignments
    /\ UNCHANGED <<agg, constructed, init_attempts, init_failed, last, pc, local, graphVars, chainVars, laterVars>>

\* lines 288-290 and 472-474: merged['frameworks_used'] and
\* explanations['frameworks'] are the rule result's own list object, and a
\* classifier result appends to it
AggregatorAppends(hearts_result, explain) ==
    (IF hearts_result # None THEN <<"HEARTS (King et al., 2024)">> ELSE <<>>)
        \o (IF explain /\ hearts_result # None THEN <<"HEARTS (King et al., 2024)">> ELSE <<>>)

\* bias_aggregator.detect_all_layers(prompt, use_hearts, use_gemini=False,
\* explain): line 150 calls the wrapped detector, the later lines work on the
\* dict it returned; the classifier raises or answers
WrappedDetect(prompt, use_hearts, explain) ==
    /\ detect_all_layers(prompt, use_hearts, FALSE, DefaultThreshold, ConcClassifierOutcomes)
    /\ Record(prompt, DetectorReturn(prompt))
    /\ alignments' = DetectorReturn(prompt).framework_alignments
                        \o AggregatorAppends(last'.hearts_result, explain)
    /\ UNCHANGED <<graphVars, chainVars, laterVars>>

NextDet ==
    \/ Construct
    \/ \E prompt \in Prompts : DetectBiases(prompt)
    \/ \E prompt \in Prompts, use_hearts \in BOOLEAN, explain \in BOOLEAN :
          WrappedDetect(prompt, use_hearts, explain)

SpecDet == Init /\ [][NextDet]_vars

-----------------------------------------------------------------------------
(* Layer 1 on texts: what the keyword and regex tables of bias_detection.py  *)
(* find in a text.  A text is the sequence of its characters.                *)

\* lines 44-61: per category, the keywords looked for as substrings
DEMOGRAPHIC_KEYWORDS ==
    [ race |->
          { <<"r", "a", "c", "e">>,
            <<"e", "t", "h", "n", "i", "c", "i", "t", "y">>,
            <<"r", "a", "c", "i", "a", "l">>,
            <<"b", "l", "a", "c", "k">>,
            <<"w", "h", "i", "t", "e">>,
            <<"a", "s", "i", "a", "n">>,
            <<"h", "i", "s", "p", "a", "n", "i", "c">>,
            <<"l", "a", "t", "i", "n", "o">>,
            <<"a", "f", "r", "i", "c", "a", "n">>,
            <<"e", "u", "r", "o", "p", "e", "a", "n">>,
            <<"c", "a", "u", "c", "a", "s", "i", "a", "n">>,
            <<"i", "n", "d", "i", "g", "e", "n", "o", "u", "s">>,
            <<"n", "a", "t", "i", "v", "e">> },
      gender |->
          { <<"g", "e", "n", "d", "e", "r">>,
            <<"m", "a", "l", "e">>,
            <<"f", "e", "m", "a", "l", "e">>,
            <<"m", "a", "n">>,
            <<"w", "o", "m", "a", "n">>,
            <<"m", "e", "n">>,
            <<"w", "o", "m", "e", "n">>,
            <<"m", "a", "s", "c", "u", "l", "i", "n", "e">>,
            <<"f", "e", "m", "i", "n", "i", "n", "e">>,
            <<"t", "r", "a", "n", "s", "g", "e", "n", "d", "e", "r">>,
            <<"n", "o", "n", "-", "b", "i", "n", "a", "r", "y">>,
            <<"c", "i", "s", "g", "e", "n", "d", "e", "r">> },
      age |->
          { <<"a", "g", "e">>,
            <<"y", "o", "u", "n", "g">>,
            <<"o", "l", "d">>,
            <<"e", "l", "d", "e", "r", "l", "y">>,
            <<"t", "e", "e", "n", "a", "g", "e", "r">>,
            <<"s", "e", "n", "i", "o", "r">>,
            <<"m", "i", "l", "l", "e", "n", "n", "i", "a", "l">>,
            <<"g", "e", "n", " ", "z">>,
            <<"b", "o", "o", "m", "e", "r">>,
            <<"y", "o", "u", "t", "h">>,
            <<"a", "d", "o", "l", "e", "s", "c", "e", "n", "t">>,
            <<"g", "e", "r", "i", "a", "t", "r", "i", "c">> },
      religion |->
          { <<"r", "e", "l", "i", "g", "i", "o", "n">>,
            <<"r", "e", "l", "i", "g", "i", "o", "u", "s">>,
            <<"c", "h", "r", "i", "s", "t", "i", "a", "n">>,
            <<"m", "u", "s", "l", "i", "m">>,
            <<"i", "s", "l", "a", "m">>,
            <<"j", "e", "w", "i", "s", "h">>,
            <<"j", "u", "d", "a", "i", "s", "m">>,
            <<"h", "i", "n", "d", "u">>,
            <<"h", "i", "n", "d", "u", "i", "s", "m">>,
            <<"b", "u", "d", "d", "h", "i", "s", "t">>,
            <<"b", "u", "d", "d", "h", "i", "s", "m">>,
            <<"a", "t", "h", "e", "i", "s", "t">>,
            <<"a", "t", "h", "e", "i", "s", "m">>,
            <<"s", "i", "k", "h">> },
      nationality |->
          { <<"n", "a", "t", "i", "o", "n", "a", "l", "i", "t", "y">>,
            <<"n", "a", "t", "i", "o", "n", "a", "l">>,
            <<"a", "m", "e", "r", "i", "c", "a", "n">>,
            <<"b", "r", "i", "t", "i", "s", "h">>,
            <<"c", "h", "i", "n", "e", "s", "e">>,
            <<"i", "n", "d", "i", "a", "n">>,
            <<"m", "e", "x", "i", "c", "a", "n">>,
            <<"c", "o", "u", "n", "t", "r", "y">>,
            <<"c", "i", "t", "i", "z", "e", "n">>,
            <<"i", "m", "m", "i", "g", "r", "a", "n", "t">>,
            <<"r", "e", "f", "u", "g", "e", "e">> },
      socioeconomic |->
          { <<"p", "o", "o", "r">>,
            <<"r", "i", "c", "h">>,
            <<"w", "e", "a", "l", "t", "h", "y">>,
            <<"p", "o", "v", "e", "r", "t", "y">>,
            <<"i", "n", "c", "o", "m", "e">>,
            <<"c", "l", "a", "s", "s">>,
            <<"a", "f", "f", "l", "u", "e", "n", "t">>,
            <<"d", "i", "s", "a", "d", "v", "a", "n", "t", "a", "g", "e", "d">>,
            <<"s", "o", "c", "i", "o", "e", "c", "o", "n", "o", "m", "i", "c">>,
            <<"e", "c", "o", "n", "o", "m", "i", "c", " ", "s", "t", "a", "t", "u", "s">>,
            <<"w", "e", "a", "l", "t", "h">> },
      sexual_orientation |->
          { <<"g", "a", "y">>,
            <<"l", "e", "s", "b", "i", "a", "n">>,
            <<"b", "i", "s", "e", "x", "u", "a", "l">>,
            <<"s", "t", "r", "a", "i", "g", "h", "t">>,
            <<"h", "e", "t", "e", "r", "o", "s", "e", "x", "u", "a", "l">>,
            <<"h", "o", "m", "o", "s", "e", "x", "u", "a", "l">>,
            <<"l", "g", "b", "t", "q">>,
            <<"q", "u", "e", "e", "r">>,
            <<"s", "e", "x", "u", "a", "l", " ", "o", "r", "i", "e", "n", "t", "a", "t", "i", "o", "n">> },
      disability |->
          { <<"d", "i", "s", "a", "b", "l", "e", "d">>,
            <<"d", "i", "s", "a", "b", "i", "l", "i", "t", "y">>,
            <<"h", "a", "n", "d", "i", "c", "a", "p", "p", "e", "d">>,
            <<"i", "m", "p", "a", "i", "r", "m", "e", "n", "t">>,
            <<"a", "u", "t", "i", "s", "m">>,
            <<"d", "e", "a", "f">>,
            <<"b", "l", "i", "n", "d">>,
            <<"w", "h", "e", "e", "l", "c", "h", "a", "i", "r">> } ]

\* lines 64-138: per cognitive-bias type, the regular expressions; a pattern
\* is its literal parts, `.*` between them, and whether it starts with `^`; a
\* pattern with an optional apostrophe is listed with and without it
COGNITIVE_BIAS_PATTERNS ==
    [ confirmation_bias |->
          { [anchored |-> FALSE, parts |-> <<<<"i", "s", "n", "'", "t", " ", "i", "t", " ", "t", "r", "u", "e", " ", "t", "h", "a", "t">>>>],
            [anchored |-> FALSE, parts |-> <<<<"i", "s", "n", "t", " ", "i", "t", " ", "t", "r", "u", "e", " ", "t", "h", "a", "t">>>>],
            [anchored |-> FALSE, parts |-> <<<<"d", "o", "e", "s", "n", "'", "t">>, <<"p", "r", "o", "v", "e">>>>],
            [anchored |-> FALSE, parts |-> <<<<"d", "o", "e", "s", "n", "t">>, <<"p", "r", "o", "v", "e">>>>],
            [anchored |-> FALSE, parts |-> <<<<"c", "l", "e", "a", "r", "l", "y">>, <<"s", "h", "o", "w", "s">>>>],
            [anchored |-> FALSE, parts |-> <<<<"o", "b", "v", "i", "o", "u", "s", "l", "y">>>>],
            [anchored |-> FALSE, parts |-> <<<<"e", "v", "e", "r", "y", "o", "n", "e", " ", "k", "n", "o", "w", "s">>>>],
            [anchored |-> FALSE, parts |-> <<<<"i", "t", "'", "s", " ", "c", "l", "e", "a", "r", " ", "t", "h", "a", "t">>>>],
            [anchored |-> FALSE, parts |-> <<<<"i", "t", "s", " ", "c", "l", "e", "a", "r", " ", "t", "h", "a", "t">>>>],
            [anchored |-> FALSE, parts |-> <<<<"u", "n", "d", "o", "u", "b", "t", "e", "d", "l", "y">>>>],
            [anchored |-> FALSE, parts |-> <<<<"c", "e", "r", "t", "a", "i", "n", "l", "y">>, <<"d", "e", "m", "o", "n", "s", "t", "r", "a", "t", "e", "s">>>>] },
      availability_bias |->
          { [anchored |-> FALSE, parts |-> <<<<"r", "e", "c", "e", "n", "t">>, <<"s", "h", "o", "w", "s">>>>],
            [anchored |-> FALSE, parts |-> <<<<"y", "o", "u", "'", "v", "e", " ", "p", "r", "o", "b", "a", "b", "l", "y", " ", "h", "e", "a", "r", "d">>>>],
            [anchored |-> FALSE, parts |-> <<<<"y", "o", "u", "v", "e", " ", "p", "r", "o", "b", "a", "b", "l", "y", " ", "h", "e", "a", "r", "d">>>>],
            [anchored |-> FALSE, parts |-> <<<<"c", "o", "m", "m", "o", "n", " ", "k", "n", "o", "w", "l", "e", "d", "g", "e">>>>],
            [anchored |-> FALSE, parts |-> <<<<"w", "i", "d", "e", "l", "y", " ", "k", "n", "o", "w", "n">>>>],
            [anchored |-> FALSE, parts |-> <<<<"e", "v", "e", "r", "y", "o", "n", "e", " ", "h", "a", "s", " ", "s", "e", "e", "n">>>>],
            [anchored |-> FALSE, parts |-> <<<<"f", "r", "e", "q", "u", "e", "n", "t", "l", "y">>, <<"m", "e", "n", "t", "i", "o", "n", "e", "d">>>>],
            [anchored |-> FALSE, parts |-> <<<<"o", "f", "t", "e", "n">>, <<"d", "i", "s", "c", "u", "s", "s", "e", "d">>>>] },
      anchoring_bias |->
          { [anchored |-> FALSE, parts |-> <<<<"c", "o", "m", "p", "a", "r", "e", "d", " ", "t", "o">>>>],
            [anchored |-> FALSE, parts |-> <<<<"r", "e", "l", "a", "t", "i", "v", "e", " ", "t", "o">>>>],
            [anchored |-> FALSE, parts |-> <<<<"a", "s", " ", "m", "u", "c", "h", " ", "a", "s">>>>],
            [anchored |-> FALSE, parts |-> <<<<"m", "o", "r", "e", " ", "t", "h", "a", "n">>>>],
            [anchored |-> FALSE, parts |-> <<<<"l", "e", "s", "s", " ", "t", "h", "a", "n">>>>],
            [anchored |-> FALSE, parts |-> <<<<"c", "o", "m", "p", "a", "r", "e", "d", " ", "w", "i", "t", "h">>>>],
            [anchored |-> FALSE, parts |-> <<<<"i", "n", " ", "c", "o", "n", "t", "r", "a", "s", "t", " ", "t", "o">>>>],
            [anchored |-> FALSE, parts |-> <<<<"u", "n", "l", "i", "k", "e">>, <<"w", "h", "i", "c", "h">>>>] },
      framing_bias |->
          { [anchored |-> FALSE, parts |-> <<<<"l", "o", "s", "s">>, <<"o", "f">>>>],
            [anchored |-> FALSE, parts |-> <<<<"g", "a", "i", "n">>, <<"o", "f">>>>],
            [anchored |-> FALSE, parts |-> <<<<"r", "i", "s", "k">>, <<"o", "f">>>>],
            [anchored |-> FALSE, parts |-> <<<<"b", "e", "n", "e", "f", "i", "t">>, <<"o", "f">>>>],
            [anchored |-> FALSE, parts |-> <<<<"c", "o", "s", "t">>, <<"o", "f">>>>],
            [anchored |-> FALSE, parts |-> <<<<"a", "d", "v", "a", "n", "t", "a", "g", "e">>, <<"o", "f">>>>],
            [anchored |-> FALSE, parts |-> <<<<"d", "i", "s", "a", "d", "v", "a", "n", "t", "a", "g", "e">>, <<"o", "f">>>>] },
      leading_question |->
          { [anchored |-> FALSE, parts |-> <<<<"w", "h", "y">>, <<"s", "o">>, <<"b", "a", "d">>>>],
            [anchored |-> FALSE, parts |-> <<<<"w", "h", "y">>, <<"s", "o">>, <<"g", "o", "o", "d">>>>],
            [anchored |-> FALSE, parts |-> <<<<"i", "s", "n", "'", "t">>, <<"b", "e", "t", "t", "e", "r">>>>],
            [anchored |-> FALSE, parts |-> <<<<"i", "s", "n", "t">>, <<"b", "e", "t", "t", "e", "r">>>>],
            [anchored |-> FALSE, parts |-> <<<<"w", "o", "u", "l", "d", "n", "'", "t">>, <<"a", "g", "r", "e", "e">>>>],
            [anchored |-> FALSE, parts |-> <<<<"w", "o", "u", "l", "d", "n", "t">>, <<"a", "g", "r", "e", "e">>>>],
            [anchored |-> FALSE, parts |-> <<<<"d", "o", "n", "'", "t">>, <<"t", "h", "i", "n", "k">>>>],
            [anchored |-> FALSE, parts |-> <<<<"d", "o", "n", "t">>, <<"t", "h", "i", "n", "k">>>>],
            [anchored |-> FALSE, parts |-> <<<<"w", "h", "y">>, <<"a", "l", "w", "a", "y", "s">>>>],
            [anchored |-> FALSE, parts |-> <<<<"w", "h", "y">>, <<"n", "e", "v", "e", "r">>>>],
            [anchored |-> FALSE, parts |-> <<<<"h", "o", "w">>, <<"c", "o", "u", "l", "d">>, <<"p", "o", "s", "s", "i", "b", "l", "y">>>>] },
      stereotypical_assumption |->
          { [anchored |-> FALSE, parts |-> <<<<"t", "y", "p", "i", "c", "a", "l", "l", "y">>, <<"a", "r", "e">>>>],
            [anchored |-> FALSE, parts |-> <<<<"u", "s", "u", "a", "l", "l", "y">>, <<"d", "o">>>>],
            [anchored |-> FALSE, parts |-> <<<<"a", "l", "w", "a", "y", "s">>, <<"l", "i", "k", "e">>>>],
            [anchored |-> FALSE, parts |-> <<<<"n", "e", "v", "e", "r">>, <<"w", "a", "n", "t">>>>],
            [anchored |-> FALSE, parts |-> <<<<"t", "r", "a", "d", "i", "t", "i", "o", "n", "a", "l", "l", "y">>, <<"b", "e", "l", "i", "e", "v", "e">>>>],
            [anchored |-> FALSE, parts |-> <<<<"a", "l", "l">>, <<"a", "r", "e">>>>],
            [anchored |-> FALSE, parts |-> <<<<"e", "v", "e", "r", "y">>, <<"i", "s">>>>],
            [anchored |-> FALSE, parts |-> <<<<"n", "o", "n", "e">>, <<"c", "a", "n">>>>] },
      halo_effect |->
          { [anchored |-> FALSE, parts |-> <<<<"b", "e", "c", "a", "u", "s", "e">>, <<"i", "s">>, <<"g", "o", "o", "d">>>>],
            [anchored |-> FALSE, parts |-> <<<<"s", "i", "n", "c", "e">>, <<"i", "s">>, <<"e", "x", "c", "e", "l", "l", "e", "n", "t">>>>],
            [anchored |-> FALSE, parts |-> <<<<"g", "i", "v", "e", "n">>, <<"i", "s">>, <<"s", "u", "p", "e", "r", "i", "o", "r">>>>],
            [anchored |-> FALSE, parts |-> <<<<"a", "s">>, <<"i", "s">>, <<"b", "e", "t", "t", "e", "r">>>>] },
      negativity_bias |->
          { [anchored |-> FALSE, parts |-> <<<<"p", "r", "o", "b", "l", "e", "m">>, <<"w", "i", "t", "h">>>>],
            [anchored |-> FALSE, parts |-> <<<<"i", "s", "s", "u", "e">>, <<"w", "i", "t", "h">>>>],
            [anchored |-> FALSE, parts |-> <<<<"n", "e", "g", "a", "t", "i", "v", "e">>, <<"a", "s", "p", "e", "c", "t">>>>],
            [anchored |-> FALSE, parts |-> <<<<"w", "o", "r", "s", "t">>, <<"t", "h", "i", "n", "g">>>>],
            [anchored |-> FALSE, parts |-> <<<<"b", "a", "d">>, <<"a", "b", "o", "u", "t">>>>],
            [anchored |-> FALSE, parts |-> <<<<"f", "a", "i", "l">>, <<"t", "o">>>>],
            [anchored |-> FALSE, parts |-> <<<<"c", "a", "n", "n", "o", "t">>, <<"d", "o">>>>] } ]

\* lines 141-153: per structural type, the regular expressions
STRUCTURAL_BIAS_PATTERNS ==
    [ template_bias |->
          { [anchored |-> TRUE, parts |-> <<<<"t", "h", "e">>, <<"o", "f">>, <<"i", "s">>>>],
            [anchored |-> TRUE, parts |-> <<<<"w", "h", "a", "t">>, <<"i", "s">>, <<"t", "h", "e">>>>],
            [anchored |-> TRUE, parts |-> <<<<"w", "h", "y">>, <<"i", "s">>, <<"t", "h", "e">>>>],
            [anchored |-> TRUE, parts |-> <<<<"h", "o", "w">>, <<"i", "s">>, <<"t", "h", "e">>>>] },
      positional_bias |->
          { [anchored |-> TRUE, parts |-> <<<<"f", "i", "r", "s", "t">>, <<"c", "o", "n", "s", "i", "d", "e", "r">>>>],
            [anchored |-> TRUE, parts |-> <<<<"p", "r", "i", "m", "a", "r", "i", "l", "y">>, <<"f", "o", "c", "u", "s">>>>],
            [anchored |-> TRUE, parts |-> <<<<"m", "o", "s", "t">>, <<"i", "m", "p", "o", "r", "t", "a", "n", "t">>, <<"i", "s">>>>] } ]


UpperCase ==
    << "A", "B", "C", "D", "E", "F", "G", "H", "I", "J", "K", "L", "M",
       "N", "O", "P", "Q", "R", "S", "T", "U", "V", "W", "X", "Y", "Z" >>

LowerCase ==
    << "a", "b", "c", "d", "e", "f", "g", "h", "i", "j", "k", "l", "m",
       "n", "o", "p", "q", "r", "s", "t", "u", "v", "w", "x", "y", "z" >>

\* line 171: prompt.lower()
lower(text) ==
    [ i \in 1..Len(text) |->
        IF \E u \in 1..26 : UpperCase[u] = text[i]
        THEN LowerCase[CHOOSE u \in 1..26 : UpperCase[u] = text[i]]
        ELSE text[i] ]

\* the literal lit stands in text at position i
OccursAt(text, lit, i) ==
    /\ i + Len(lit) - 1 <= Len(text)
    /\ \A k \in 1..Len(lit) : text[i + k - 1] = lit[k]

\* line 193: `kw in prompt_lower`
Contains(text, kw) == \E i \in 1..Len(text) : OccursAt(text, kw, i)

RECURSIVE MatchFrom(_, _, _)
\* the remaining parts of a pattern are found from position pos on, each
\* after a `.*`, which matches any characters other than a newline
MatchFrom(text, pos, parts) ==
    IF parts = <<>> THEN TRUE
    ELSE \E j \in pos..Len(text) :
            /\ \A k \in pos..(j - 1) : text[k] # "\n"
            /\ OccursAt(text, Head(parts), j)
            /\ MatchFrom(text, j + Len(Head(parts)), Tail(parts))

\* lines 224 and 243: re.search(pattern, prompt_lower)
search(pattern, text) ==
    \E i \in (IF pattern.anchored THEN {1} ELSE 1..Len(text)) :
        /\ OccursAt(text, Head(pattern.parts), i)
        /\ MatchFrom(text, i + Len(Head(pattern.parts)), Tail(pattern.parts))

\* lines 192-194: the categories with a keyword in the lowercased text
Categories(prompt_lower) ==
    { category \in DOMAIN DEMOGRAPHIC_KEYWORDS :
        \E kw \in DEMOGRAPHIC_KEYWORDS[category] : Contains(prompt_lower, kw) }

\* lines 221-227: the cognitive-bias types with a pattern found in it
CognitiveTypes(prompt_lower) ==
    { bias_type \in DOMAIN COGNITIVE_BIAS_PATTERNS :
        \E pattern \in COGNITIVE_BIAS_PATTERNS[bias_type] : search(pattern, prompt_lower) }

\* lines 240-246: the structural types with a pattern found in it
StructuralTypes(prompt_lower) ==
    { struct_type \in DOMAIN STRUCTURAL_BIAS_PATTERNS :
        \E pattern \in STRUCTURAL_BIAS_PATTERNS[struct_type] : search(pattern, prompt_lower) }

\* sentences of the repository's tests, word by word
WomenSentence ==
    << <<"W", "h", "y">>,
       <<"a", "r", "e">>,
       <<"w", "o", "m", "e", "n">>,
       <<"a", "l", "w", "a", "y", "s">>,
       <<"s", "o">>,
       <<"e", "m", "o", "t", "i", "o", "n", "a", "l", "?">> >>

FranceSentence ==
    << <<"W", "h", "a", "t">>,
       <<"i", "s">>,
       <<"t", "h", "e">>,
       <<"c", "a", "p", "i", "t", "a", "l">>,
       <<"o", "f">>,
       <<"F", "r", "a", "n", "c", "e", "?">> >>

PoliticiansSentence ==
    << <<"A", "l", "l">>,
       <<"p", "o", "l", "i", "t", "i", "c", "i", "a", "n", "s">>,
       <<"a", "r", "e">>,
       <<"c", "o", "r", "r", "u", "p", "t", ".">> >>

TypicallySentence ==
    << <<"W", "o", "m", "e", "n">>,
       <<"t", "y", "p", "i", "c", "a", "l", "l", "y">>,
       <<"a", "r", "e">>,
       <<"m", "o", "r", "e">>,
       <<"e", "m", "o", "t", "i", "o", "n", "a", "l", ".">> >>

TeenagersSentence ==
    << <<"W", "h", "y">>,
       <<"d", "o">>,
       <<"t", "e", "e", "n", "a", "g", "e", "r", "s">>,
       <<"a", "l", "w", "a", "y", "s">>,
       <<"c", "a", "u", "s", "e">>,
       <<"p", "r", "o", "b", "l", "e", "m", "s", "?">> >>

IrresponsibleSentence ==
    << <<"W", "h", "y">>,
       <<"a", "r", "e">>,
       <<"a", "l", "l">>,
       <<"t", "e", "e", "n", "a", "g", "e", "r", "s">>,
       <<"i", "r", "r", "e", "s", "p", "o", "n", "s", "i", "b", "l", "e", "?">> >>

VaccinesSentence ==
    << <<"O", "b", "v", "i", "o", "u", "s", "l", "y", ",">>,
       <<"v", "a", "c", "c", "i", "n", "e", "s">>,
       <<"a", "r", "e">>,
       <<"d", "a", "n", "g", "e", "r", "o", "u", "s", ".">> >>

\* a sentence that names a group of every category
ManyGroupsSentence ==
    << <<"W", "h", "y">>,
       <<"a", "r", "e">>,
       <<"a", "l", "l">>,
       <<"o", "l", "d">>,
       <<"p", "o", "o", "r">>,
       <<"b", "l", "a", "c", "k">>,
       <<"g", "a", "y">>,
       <<"d", "e", "a", "f">>,
       <<"c", "h", "r", "i", "s", "t", "i", "a", "n">>,
       <<"i", "m", "m", "i", "g", "r", "a", "n", "t">>,
       <<"w", "o", "m", "e", "n">>,
       <<"a", "l", "w", "a", "y", "s">>,
       <<"o", "b", "v", "i", "o", "u", "s", "l", "y">>,
       <<"w", "o", "r", "s", "e">>,
       <<"t", "h", "a", "n">>,
       <<"t", "h", "a", "t", "?">> >>

Sentences ==
    { WomenSentence, FranceSentence, PoliticiansSentence, TypicallySentence,
      TeenagersSentence, IrresponsibleSentence, VaccinesSentence, ManyGroupsSentence }

RECURSIVE Join(_)
\* " ".join(words)
Join(words) ==
    IF Len(words) = 1 THEN Head(words)
    ELSE Head(words) \o <<" ">> \o Join(Tail(words))

EmptyText == <<>>
WhitespaceText == <<" ", " ", " ", "\n", "\t", " ", " ">>

\* the texts analysed: every phrase of the sentences, the empty text and a
\* text of white space
Texts ==
    {EmptyText, WhitespaceText}
        \cup UNION { UNION { { Join(SubSeq(s, i, j)) : j \in i..Len(s) } : i \in 1..Len(s) }
                     : s \in Sentences }

\* what the tables find in each text
Findings ==
    [ text \in Texts |->
        LET prompt_lower == lower(text)
        IN  [ categories |-> Categories(prompt_lower),
              cognitive  |-> CognitiveTypes(prompt_lower),
              structural |-> StructuralTypes(prompt_lower) ] ]

\* the text as the rest of the model sees it
Profile(text) ==
    [ demographic |-> Cardinality(Findings[text].categories),
      cognitive   |-> Findings[text].cognitive,
      structural  |-> Cardinality(Findings[text].structural) ]

\* bias_detector.detect_biases(text) on a text of Texts
DetectText(text) ==
    /\ analysis' = Some([ text |-> text,
                          categories |-> Findings[text].categories,
                          cognitive  |-> Findings[text].cognitive,
                          structural |-> Findings[text].structural,
                          result |-> detect_biases(Profile(text)) ])
    /\ Record(Profile(text), DetectorReturn(Profile(text)))
    /\ alignments' = DetectorReturn(Profile(text)).framework_alignments
    /\ UNCHANGED <<agg, constructed, init_attempts, init_failed, last, pc, local, graphVars, chainVars, reconVars, rateVars>>

NextText == \E text \in Texts : DetectText(text)

SpecText == Init /\ [][NextText]_vars

-----------------------------------------------------------------------------
(* The exploration graph, api.py: /api/graph/expand creates a root node and  *)
(* its potential paths, /api/graph/expand-node creates one child node, the   *)
(* edge to it and the child's potential paths.  The server keeps no graph:   *)
(* nodes and edges collect what the caller has received.                     *)

\* what get_available_bias_types and get_available_debias_methods return for
\* the analysed answer
Offers ==
    { [biases |-> {}, debiases |-> {}],
      [biases |-> {}, debiases |-> {"neutralize_language"}],
      [biases |-> {"anchoring"}, debiases |-> {"neutralize_language"}] }

\* node ids that do not change from one request to the next
NewId_Constant(k) == "n1"

\* the k-th value of str(uuid.uuid4())
NewId(k) == "n" \o ToString(k)

\* the node ids a caller can put in a request: none, one it has received, or
\* a string of its own
CallerNodeIds == {""} \cup {NewId(k) : k \in 1..issued} \cup {"n1-debias"}

\* request values of 'action', 'bias_type' and 'method'
CallerActions == {None, Some("bias"), Some("debias"), Some("merge")}
CallerBiasTypes == {None, Some("anchoring"), Some("framing")}
CallerMethods == {None, Some("neutralize_language"), Some("counterfactual")}

\* the potential paths of a node: edges with a source and no target
PotentialPaths(node_id, offer, request) ==
    { [ id |-> node_id \o "-bias-" \o bias_type, source |-> node_id, target |-> None,
        type |-> "bias", option |-> Some(bias_type), request |-> request ]
        : bias_type \in offer.biases }
    \cup
    { [ id |-> node_id \o "-debias-" \o method, source |-> node_id, target |-> None,
        type |-> "debias", option |-> Some(method), request |-> request ]
        : method \in offer.debiases }

\* lines 1123-1130: the edge from the parent to the new node
ConnectingEdge(parent_id, new_id, action, request) ==
    [ id |-> parent_id \o "-" \o new_id, source |-> parent_id, target |-> Some(new_id),
      type |-> action, option |-> None, request |-> request ]

\* the root node of graph_expand: no 'parent_id' key
RootNode(node_id, request) ==
    [ id |-> node_id, type |-> "original", parent_id |-> None, request |-> request ]

\* the child node without its 'parent_id'
NewNode_NoParent(new_id, node_type, parent_id, request) ==
    [ id |-> new_id, type |-> node_type, parent_id |-> None, request |-> request ]

\* lines 1053-1058: the child node of graph_expand_node
NewNode(new_id, node_type, parent_id, request) ==
    [ id |-> new_id, type |-> node_type, parent_id |-> Some(parent_id), request |-> request ]

\* the request as the handler read it
Request(node_id, prompt, action, option) ==
    [ node_id |-> node_id, prompt |-> prompt, action |-> action, option |-> option ]

\* how the generator call that produces the node's answer ends: it returns
\* an answer, it raises, or (multi-turn injection) it returns no text and the
\* generate_answer call made instead raises
AnswerOutcomes == {"answered", "raised", "empty then raised"}

\* lines 965-982 and 657-667: the answer of the node, or the text
\* "[Error generating answer: ...]" put in its place
LlmAnswer(answer) == IF answer = "answered" THEN "answer" ELSE "placeholder"

\* lines 989-1003 and 675-691: the report of detect_all_layers, or that of the
\* rule-based detector when detect_all_layers raised
Detection(classify_ok) == IF classify_ok THEN "layers" ELSE "rule-based"

\* lines 923-944: with action 'bias' the answer is the reply to the second
\* turn, generated inside inject_bias_llm (vertex_llm_service.py lines
\* 714-719) outside any inner try: when that call raises, the exception
\* reaches the handler's outer except
AnswerAborts(action, answer) == action = "bias" /\ answer = "raised"

\* what a response without a node says about the node's content
NotBuilt(raised_in) ==
    [ llm_answer |-> "none", detection |-> "none", raised_in |-> raised_in ]

\* the content of the node of a successful response
Built(answer, classify_ok) ==
    [ llm_answer |-> LlmAnswer(answer), detection |-> Detection(classify_ok),
      raised_in |-> "none" ]

\* the handler returns: the caller adds the fragment to its graph
Respond(endpoint, status, request, new_nodes, new_edges, built) ==
    /\ response' = [ endpoint |-> endpoint, status |-> status, request |-> request,
                     nodes |-> new_nodes, edges |-> new_edges, built |-> built ]
    /\ nodes' = nodes \cup new_nodes
    /\ edges' = edges \cup new_edges
    /\ requests' = requests + 1

\* graph_expand, lines 631-855; answer_ok is false when get_llm_service or
\* generate_answer raises (lines 659-665), classify_ok is false when
\* detect_all_layers raises (lines 676-688), ok is false when a step outside
\* the handler's inner try blocks raises
GraphExpand(prompt, ok, answer_ok, classify_ok, offer) ==
    /\ requests < MaxRequests
    /\ LET request == Request("", prompt, None, None)
           node_id == NewId(issued + 1)
       IN  IF prompt = ""
           THEN Respond("expand", 400, request, {}, {}, NotBuilt("none")) /\ UNCHANGED issued
           ELSE IF ~ok
           THEN Respond("expand", 500, request, {}, {}, NotBuilt("other")) /\ issued' = issued + 1
           ELSE /\ Respond("expand", 200, request, {RootNode(node_id, requests + 1)},
                           PotentialPaths(node_id, offer, requests + 1),
                           Built(IF answer_ok THEN "answered" ELSE "raised", classify_ok))
                /\ issued' = issued + 1
    /\ UNCHANGED <<agg, constructed, init_attempts, init_failed, last, pc, local, detVars, chainVars, laterVars>>

\* the guard of line 915 testing the prompt only
RequestIncomplete_PromptOnly(parent_id, parent_prompt) == parent_prompt = ""

\* line 915: `not parent_prompt or not parent_id`
RequestIncomplete(parent_id, parent_prompt) == parent_prompt = "" \/ parent_id = ""

\* lines 923-959: every action other than 'bias' takes the debias branch
NodeType(action) == IF action = "bias" THEN "biased" ELSE "debiased"

\* graph_expand_node, lines 886-1187; llm_available is LLM_AVAILABLE, llm_ok is
\* false when get_llm_service, debias_self_help or a call of inject_bias_llm
\* before the second turn raises, answer is how the generator call for the
\* node's answer ends, classify_ok is false when detect_all_layers raises
GraphExpandNode(parent_id, parent_prompt, action_field, bias_type, method, llm_available, llm_ok, answer, classify_ok, offer) ==
    /\ requests < MaxRequests
    /\ LET action  == Get(action_field, "debias")
           request == Request(parent_id, parent_prompt, action_field,
                              IF action = "bias" THEN bias_type ELSE method)
           new_id  == NewId(issued + 1)
       IN  IF RequestIncomplete(parent_id, parent_prompt)
           THEN Respond("expand-node", 400, request, {}, {}, NotBuilt("none")) /\ UNCHANGED issued
           ELSE IF ~llm_available
           THEN Respond("expand-node", 503, request, {}, {}, NotBuilt("none")) /\ UNCHANGED issued
           ELSE IF action = "bias" /\ ~Truthy(bias_type)
           THEN Respond("expand-node", 400, request, {}, {}, NotBuilt("none")) /\ UNCHANGED issued
           ELSE IF ~llm_ok
           THEN Respond("expand-node", 500, request, {}, {}, NotBuilt("transformation")) /\ UNCHANGED issued
           ELSE IF AnswerAborts(action, answer)
           THEN Respond("expand-node", 500, request, {}, {}, NotBuilt("answer")) /\ UNCHANGED issued
           ELSE /\ Respond("expand-node", 200, request,
                           {NewNode(new_id, NodeType(action), parent_id, requests + 1)},
                           {ConnectingEdge(parent_id, new_id, action, requests + 1)}
                               \cup PotentialPaths(new_id, offer, requests + 1),
                           Built(answer, classify_ok))
                /\ issued' = issued + 1
    /\ UNCHANGED <<agg, constructed, init_attempts, init_failed, last, pc, local, detVars, chainVars, laterVars>>

\* requests of every kind, with the answer generated and the layers run
NextGraph ==
    \/ \E prompt \in {"", "p"}, ok \in BOOLEAN, offer \in Offers :
          GraphExpand(prompt, ok, TRUE, TRUE, offer)
    \/ \E parent_id \in CallerNodeIds, parent_prompt \in {"", "p"},
          action_field \in CallerActions, llm_available \in BOOLEAN, llm_ok \in BOOLEAN,
          offer \in Offers :
          \E bias_type \in (IF action_field = Some("bias") THEN CallerBiasTypes ELSE {None}),
             method \in (IF action_field = Some("bias") THEN {None} ELSE CallerMethods) :
             GraphExpandNode(parent_id, parent_prompt, action_field, bias_type, method,
                             llm_available, llm_ok, "answered", TRUE, offer)

SpecGraph == Init /\ [][NextGraph]_vars

\* complete requests on received nodes, with every way the generator and the
\* classifier can fail
NextGraphFail ==
    \/ \E answer_ok \in BOOLEAN, classify_ok \in BOOLEAN, offer \in Offers :
          GraphExpand("p", TRUE, answer_ok, classify_ok, offer)
    \/ \E parent_id \in {NewId(k) : k \in 1..issued},
          action_field \in {None, Some("bias"), Some("debias")}, llm_ok \in BOOLEAN,
          answer \in AnswerOutcomes, classify_ok \in BOOLEAN, offer \in Offers :
          GraphExpandNode(parent_id, "p", action_field,
                          IF action_field = Some("bias") THEN Some("anchoring") ELSE None,
                          IF action_field = Some("bias") THEN None ELSE Some("neutralize_language"),
                          TRUE, llm_ok, answer, classify_ok, offer)

SpecGraphFail == Init /\ [][NextGraphFail]_vars

-----------------------------------------------------------------------------
(* Multi-turn bias injection, VertexLLMService.inject_bias_llm: a caller     *)
(* chains injections by passing the conversation of the previous one.  The   *)
(* n-th injection of a chain has the priming question q<n> and the prompt    *)
(* p<n>; the generator answers a<n> and r<n>, or the empty string.           *)

User(content) == [role |-> "user", content |-> content]
Assistant(content) == [role |-> "assistant", content |-> content]

\* a turn is appended when its text is true: `if conv_dict.get(...)`
Turn(message) == IF message.content # "" THEN <<message>> ELSE <<>>

RECURSIVE reconstruct_conversation(_)
\* lines 671-688: conv_dict is None or Some(dict)
reconstruct_conversation(conv_dict) ==
    IF conv_dict = None THEN <<>>
    ELSE LET conv == conv_dict[1]
         IN  reconstruct_conversation(conv.previous_conversation)
                 \o Turn(User(conv.turn1_question))
                 \o Turn(Assistant(conv.turn1_response))
                 \o Turn(User(conv.original_prompt))
                 \o Turn(Assistant(conv.turn2_response))

\* lines 666-696: the messages that precede the new priming question
ExistingMessages(existing_conversation) ==
    CASE existing_conversation.kind = "none" -> <<>>
      [] existing_conversation.kind = "dict" ->
            reconstruct_conversation(Some(existing_conversation.value))
      [] existing_conversation.kind = "list" -> existing_conversation.value

\* lines 735-749: the conversation handed back; None stands for the
\* AttributeError of existing_conversation.get on a list
FullConversation(existing_conversation, turn1_question, turn1_response, prompt, turn2_response) ==
    CASE existing_conversation.kind = "none" ->
            Some([ turn1_question  |-> turn1_question,
                   turn1_response  |-> turn1_response,
                   original_prompt |-> prompt,
                   turn2_response  |-> turn2_response,
                   previous_conversation |-> None,
                   bias_count |-> 1 ])
      [] existing_conversation.kind = "dict" ->
            Some([ turn1_question  |-> turn1_question,
                   turn1_response  |-> turn1_response,
                   original_prompt |-> prompt,
                   turn2_response  |-> turn2_response,
                   previous_conversation |-> Some(existing_conversation.value),
                   bias_count |-> existing_conversation.value.bias_count + 1 ])
      [] existing_conversation.kind = "list" -> None

\* what the caller passes as existing_conversation: nothing, the dict the
\* previous injection returned, or the same turns as a list of messages
Existing(chained_as) ==
    CASE chained_as = "none" -> [kind |-> "none"]
      [] chained_as = "dict" -> [kind |-> "dict", value |-> conversation[1]]
      [] chained_as = "list" -> [kind |-> "list", value |-> turns]

\* what a generator call returns for the text it was asked for
Replies(text) == {text, ""}

\* inject_bias_llm(prompt, bias_type, model_id, existing_conversation), lines
\* 445-766, from the caller's side; generator_ok is false when a generator
\* call raises
InjectBias(chained_as, generator_ok) ==
    /\ chained_as # "none" => conversation # None
    /\ LET n == IF chained_as = "none" THEN 1 ELSE injected.n + 1
           existing_conversation == Existing(chained_as)
           turn1_question == "q" \o ToString(n)
           prompt == "p" \o ToString(n)
       IN  /\ n <= MaxInjections
           /\ \E turn1_response \in Replies("a" \o ToString(n)),
                 turn2_response \in Replies("r" \o ToString(n)) :
              LET messages_turn1 == ExistingMessages(existing_conversation)
                                        \o <<User(turn1_question)>>
                  messages_turn2 == messages_turn1
                                        \o <<Assistant(turn1_response), User(prompt)>>
                  returned == FullConversation(existing_conversation, turn1_question,
                                               turn1_response, prompt, turn2_response)
              IN  IF ~generator_ok
                  THEN /\ injected' = [status |-> "generator failed", n |-> injected.n,
                                       chained_as |-> chained_as]
                       /\ UNCHANGED <<conversation, sent, turns>>
                  ELSE IF returned = None
                  THEN /\ injected' = [status |-> "raised", n |-> injected.n,
                                       chained_as |-> chained_as]
                       /\ sent' = messages_turn2
                       /\ UNCHANGED <<conversation, turns>>
                  ELSE /\ injected' = [status |-> "ok", n |-> n, chained_as |-> chained_as]
                       /\ sent' = messages_turn2
                       /\ conversation' = returned
                       /\ turns' = (IF chained_as = "none" THEN <<>> ELSE turns)
                                      \o << User(turn1_question), Assistant(turn1_response),
                                            User(prompt), Assistant(turn2_response) >>
    /\ UNCHANGED <<agg, constructed, init_attempts, init_failed, last, pc, local, detVars, graphVars, laterVars>>

NextChain ==
    \E chained_as \in {"none", "dict", "list"}, generator_ok \in BOOLEAN :
        InjectBias(chained_as, generator_ok)

SpecChain == Init /\ [][NextChain]_vars

-----------------------------------------------------------------------------
(* Conversation reconstruction over dicts held by reference                  *)
(*                                                                           *)
(* vertex_llm_service.py, inject_bias_llm lines 666-696 called directly with *)
(* a dict the caller built: 'previous_conversation' then holds a reference   *)
(* to another dict of the caller, so a chain can lead back to itself.        *)
(* Object a holds the turns q<a>, a<a>, p<a>, r<a>.                          *)

\* what a caller can store under 'previous_conversation'
References == {None} \cup {Some(b) : b \in Objects}

\* the dict at address a
ConvAt(a) ==
    [ turn1_question  |-> "q" \o ToString(a),
      turn1_response  |-> "a" \o ToString(a),
      original_prompt |-> "p" \o ToString(a),
      turn2_response  |-> "r" \o ToString(a),
      previous_conversation |-> heap[a] ]

RECURSIVE reconstruct_conversation_ref(_, _)
\* lines 671-688 on the dict at address ref, entered as the depth-th nested
\* call: the call that would exceed the interpreter's limit raises
\* RecursionError, which unwinds every frame; calls counts the calls entered
reconstruct_conversation_ref(ref, depth) ==
    IF depth > RecursionLimit
    THEN [raised |-> TRUE, calls |-> depth - 1, messages |-> <<>>]
    ELSE LET conv == ConvAt(ref)
             earlier == IF conv.previous_conversation # None
                        THEN reconstruct_conversation_ref(conv.previous_conversation[1], depth + 1)
                        ELSE [raised |-> FALSE, calls |-> depth, messages |-> <<>>]
         IN  IF earlier.raised THEN earlier
             ELSE [ raised |-> FALSE, calls |-> earlier.calls,
                    messages |-> earlier.messages
                                    \o Turn(User(conv.turn1_question))
                                    \o Turn(Assistant(conv.turn1_response))
                                    \o Turn(User(conv.original_prompt))
                                    \o Turn(Assistant(conv.turn2_response)) ]

\* the caller stores a reference (or None) under 'previous_conversation' of
\* one of its dicts; recon describes requests on the heap as it is, so the
\* record of the request made before the change is dropped
SetPrevious(a, p) ==
    /\ heap' = [heap EXCEPT ![a] = p]
    /\ recon' = None
    /\ UNCHANGED <<agg, constructed, init_attempts, init_failed, last, pc, local, detVars, graphVars, chainVars, textVars, rateVars>>

\* variant of InjectionOutcome that answers a RecursionError with what was
\* reconstructed so far
InjectionOutcome_Patched(ref, generator_ok, walk) ==
    IF ~generator_ok
    THEN [ ref |-> ref, status |-> 500, error |-> "generator failed",
           calls |-> 0, messages |-> <<>> ]
    ELSE [ ref |-> ref, status |-> 200, error |-> "",
           calls |-> walk.calls,
           messages |-> walk.messages \o <<User("q-new")>> ]

\* how the request ends: any exception inside inject_bias_llm leaves it as
\* "Bias injection failed: ..." (lines 765-766), which graph_expand_node
\* answers with status 500 and the message (api.py lines 1183-1187)
InjectionOutcome(ref, generator_ok, walk) ==
    IF ~generator_ok
    THEN [ ref |-> ref, status |-> 500, error |-> "generator failed",
           calls |-> 0, messages |-> <<>> ]
    ELSE IF walk.raised
    THEN [ ref |-> ref, status |-> 500, error |-> "RecursionError",
           calls |-> walk.calls, messages |-> <<>> ]
    ELSE [ ref |-> ref, status |-> 200, error |-> "",
           calls |-> walk.calls,
           messages |-> walk.messages \o <<User("q-new")>> ]

\* inject_bias_llm(prompt, bias_type, model_id, existing_conversation) with
\* the dict at address ref: the priming question is generated (line 572),
\* then the conversation is reconstructed (line 694) and sent with the new
\* question (line 699)
InjectBiasOn(ref, generator_ok) ==
    /\ recon' = Some(InjectionOutcome(ref, generator_ok,
                                      reconstruct_conversation_ref(ref, 1)))
    /\ UNCHANGED <<agg, constructed, init_attempts, init_failed, last, pc, local, detVars, graphVars, chainVars, heap, textVars, rateVars>>

NextRecon ==
    \/ \E a \in Objects, p \in References : SetPrevious(a, p)
    \/ \E ref \in Objects, generator_ok \in BOOLEAN : InjectBiasOn(ref, generator_ok)

SpecRecon == Init /\ [][NextRecon]_vars

-----------------------------------------------------------------------------
(* Rate limiting, security.py: the rate_limit decorator in front of the      *)
(* graph endpoints and the module-level UsageTracker.  With the default      *)
(* REQUIRE_API_KEY = false no request carries an api_key, so the identifier  *)
(* is the client's address; all requests fall on one day.                    *)

\* the endpoint names of api.py lines 632 and 887
Endpoints == {"graph_expand", "graph_expand_node"}

\* cost_estimate of the endpoint, in cents
CostEstimate(endpoint) == IF endpoint = "graph_expand" THEN 2 ELSE 1

\* SecurityConfig.IP_DAILY_COST_QUOTA, default 5.0 dollars, in cents
IP_DAILY_COST_QUOTA == 500

\* the windows of lines 256 and 272
MinuteWindow == 60
HourWindow == 3600

\* seconds that pass between two looks at the clock
TickSeconds == 30

\* lines 69-72: the list is replaced by its entries inside the window that
\* carry this endpoint
Cleaned(entries, endpoint, window_seconds) ==
    SelectSeq(entries, LAMBDA entry : now - entry.ts < window_seconds /\ entry.ep = endpoint)

\* UsageTracker.check_rate_limit(api_key, endpoint, window_seconds,
\* max_requests), lines 56-82, on the list entries of the identifier: whether
\* the request is allowed and the list the call leaves behind
check_rate_limit(entries, endpoint, window_seconds, max_requests) ==
    LET kept == Cleaned(entries, endpoint, window_seconds)
    IN  IF Len(kept) >= max_requests
        THEN [ allowed |-> FALSE, entries |-> kept ]
        ELSE [ allowed |-> TRUE, entries |-> Append(kept, [ts |-> now, ep |-> endpoint]) ]

\* the decorator answers 429 itself
Refused(client, endpoint, limit_type) ==
    /\ checked' = Some([ client |-> client, endpoint |-> endpoint, status |-> 429,
                         limit_type |-> limit_type ])
    /\ UNCHANGED <<usage, admitted>>

\* the decorator of lines 227-369 around a request of client for endpoint:
\* the per-minute check, the per-hour check, the daily quotas, then
\* increment_usage and the endpoint itself
RateLimit(client, endpoint) ==
    /\ LET minute == check_rate_limit(rate_limits[client], endpoint, MinuteWindow,
                                      IP_RATE_LIMIT_PER_MINUTE)
           hour   == check_rate_limit(minute.entries, endpoint, HourWindow,
                                      IP_RATE_LIMIT_PER_HOUR)
       IN  IF ~minute.allowed
           THEN /\ rate_limits' = [rate_limits EXCEPT ![client] = minute.entries]
                /\ Refused(client, endpoint, "ip_per_minute")
           ELSE /\ rate_limits' = [rate_limits EXCEPT ![client] = hour.entries]
                /\ IF ~hour.allowed
                   THEN Refused(client, endpoint, "ip_per_hour")
                   ELSE IF usage[client].count >= IP_DAILY_REQUEST_QUOTA
                   THEN Refused(client, endpoint, "ip_daily_requests")
                   ELSE IF usage[client].cost + CostEstimate(endpoint) > IP_DAILY_COST_QUOTA
                   THEN Refused(client, endpoint, "ip_daily_cost")
                   ELSE /\ usage' = [usage EXCEPT ![client] =
                                        [ count |-> @.count + 1,
                                          cost  |-> @.cost + CostEstimate(endpoint) ]]
                        /\ admitted' = Append(admitted, [ ts |-> now, client |-> client,
                                                          endpoint |-> endpoint ])
                        /\ checked' = Some([ client |-> client, endpoint |-> endpoint,
                                             status |-> 200, limit_type |-> "none" ])
    /\ UNCHANGED <<agg, constructed, init_attempts, init_failed, last, pc, local, detVars, graphVars, chainVars, reconVars, textVars, now>>

\* time passes
Tick ==
    /\ now + TickSeconds <= MaxClock
    /\ now' = now + TickSeconds
    /\ UNCHANGED <<agg, constructed, init_attempts, init_failed, last, pc, local, detVars, graphVars, chainVars, reconVars, textVars, rate_limits, usage, admitted, checked>>

NextRate ==
    \/ \E client \in Clients, endpoint \in Endpoints : RateLimit(client, endpoint)
    \/ Tick

SpecRate == Init /\ [][NextRate]_vars

-----------------------------------------------------------------------------
(* Properties *)

Returned == last.called /\ last.result # None
Result == last.result[1]

\* number of occurrences of x in the sequence seq
Count(seq, x) == Cardinality({i \in 1..Len(seq) : seq[i] = x})

\* C1: on one aggregator, over the constructor and any number of
\* detect_all_layers calls, the HEARTSDetector construction is started at most
\* once, whatever a failed attempt raised.
C1_AtMostOneAttempt == init_attempts <= 1

\* C2: with concurrent first use of the still uninitialised classifier, no
\* second construction is started while one is running: at most one thread is
\* inside HEARTSDetector(...).
C2_OneInitializer ==
    Lifecycle(agg, init_failed) = "UNINITIALIZED"
        => Cardinality({t \in Threads : pc[t] = "loading"}) <= 1

\* C3: the lifecycle never leaves FAILED or READY, and in READY the detector
\* is kept and no initialisation error is recorded.
C3_LifecycleMoves ==
    [][ /\ Lifecycle(agg, init_failed) = "FAILED"
            => Lifecycle(agg', init_failed') = "FAILED"
        /\ Lifecycle(agg, init_failed) = "READY"
            => /\ Lifecycle(agg', init_failed') = "READY"
               /\ agg'.hearts_detector = agg.hearts_detector
               /\ agg'.hearts_init_error = agg.hearts_init_error ]_vars

\* C4: a call that requests the classifier after its initialisation has failed
\* returns normally and its result carries hearts_error.
C4_FailureIsReported ==
    (last.called /\ last.state_before = "FAILED" /\ last.use_hearts)
        => (Returned /\ Result.hearts_error # None)

\* C5: a call made in the FAILED state to which the judge does not contribute
\* returns layers_used containing 'rule-based' and an overall score equal to
\* the rule-based score.
C5_FailedMeansRuleOnly ==
    (last.called /\ last.state_before = "FAILED" /\ ~last.judge_returned)
        => /\ Returned
           /\ Count(Result.layers_used, "rule-based") >= 1
           /\ Result.overall_bias_score = last.rule_result.overall_bias_score

\* C6: every result holds the rule-based detector's report, exactly one
\* 'Rule-Based Detector' metrics entry, carrying the rule score with confidence
\* 1.0, and 'rule-based' exactly once in layers_used.
C6_RuleLayerAlways ==
    Returned =>
        /\ Result.rule_based = last.rule_result
        /\ Count(Result.layers_used, "rule-based") = 1
        /\ Count(Result.judges_used, "Rule-Based Detector") = 1
        /\ \A i \in 1..Len(Result.bias_metrics) :
              Result.bias_metrics[i].judge = "Rule-Based Detector"
                  => /\ Result.bias_metrics[i].confidence = Unit
                     /\ Result.bias_metrics[i].score = last.rule_result.overall_bias_score

\* C6 witness: a result to which all three layers contributed
C6_Witness ==
    /\ Returned
    /\ last.classifier_returned
    /\ last.judge_returned
    /\ Result.hearts[1].confidence = Some(Pct(60))

\* C7: no behaviour of the classifier or of the judge makes detect_all_layers
\* raise.
C7_NeverRaises == last.called => last.result # None

\* C8: layers_used is 'rule-based', then 'HEARTS' iff the classifier call
\* returned, then 'Gemini' iff the judge call returned; with both layers
\* switched off in the call it is exactly <<'rule-based'>>.
C8_LayersUsed ==
    Returned =>
        /\ Result.layers_used =
              <<"rule-based">>
                  \o (IF last.classifier_returned THEN <<"HEARTS">> ELSE <<>>)
                  \o (IF last.judge_returned THEN <<"Gemini">> ELSE <<>>)
        /\ (~last.use_hearts /\ ~last.use_gemini) => Result.layers_used = <<"rule-based">>

\* C8 witness: the classifier is READY and a judge is configured, the call
\* switches both off
C8_Witness ==
    /\ Returned
    /\ ~last.use_hearts /\ ~last.use_gemini
    /\ last.state_before = "READY" /\ agg.llm_enabled
    /\ Result.layers_used = <<"rule-based">>

\* C8 witness, second case: all three layers in order
C8_WitnessAll ==
    /\ Returned
    /\ Result.layers_used = <<"rule-based", "HEARTS", "Gemini">>

\* C9: the judge is called only if requested, configured and, when a
\* classifier result exists, that result's confidence is below the threshold;
\* with a confidence at or above the threshold it is not called; without a
\* classifier result it is called whenever requested and configured.
C9_JudgeGate ==
    last.called =>
        /\ last.judge_called =>
              /\ last.use_gemini /\ agg.llm_enabled
              /\ \/ last.hearts_result = None
                 \/ /\ last.hearts_result[1].confidence # None
                    /\ last.hearts_result[1].confidence[1] < last.threshold
        /\ ( /\ last.hearts_result # None
             /\ last.hearts_result[1].confidence # None
             /\ last.hearts_result[1].confidence[1] >= last.threshold )
              => ~last.judge_called
        /\ (last.hearts_result = None /\ last.use_gemini /\ agg.llm_enabled)
              => last.judge_called

\* C9 witness: the classifier answered with a confidence equal to the
\* threshold and the requested, configured judge was not called
C9_Witness ==
    /\ last.called
    /\ last.use_gemini /\ agg.llm_enabled
    /\ last.hearts_result # None
    /\ last.hearts_result[1].confidence = Some(last.threshold)
    /\ ~last.judge_called

\* C10: the overall score is the mean of the metrics' scores, and the metrics
\* list has one entry per layer of layers_used, in the same order.
JudgeOfLayer(layer) ==
    CASE layer = "rule-based" -> "Rule-Based Detector"
      [] layer = "HEARTS"     -> "HEARTS ALBERT-v2"
      [] layer = "Gemini"     -> "Gemini 2.5 Flash"

C11_ScoreBounds ==
    /\ last.called =>
          /\ 0 <= last.rule_result.overall_bias_score
          /\ last.rule_result.overall_bias_score <= Unit
    /\ Returned =>
          /\ 0 <= Result.overall_bias_score
          /\ Result.overall_bias_score <= Unit

\* C12: source agreement is 1.0 when there is no classifier result; otherwise,
\* with rule_biased := (rule score > 0.3), it is 0.9 when rule_biased equals
\* is_stereotype and max(0.3, 1 - |rule score - stereotype probability|) when
\* they differ; it always lies in [0.3, 1.0].
C12_SourceAgreement ==
    Returned =>
        LET rule_score == last.rule_result.overall_bias_score
            agreement  == Result.source_agreement
        IN  /\ Pct(30) <= agreement /\ agreement <= Unit
            /\ ~last.classifier_returned => agreement = Unit
            /\ last.classifier_returned =>
                  LET hearts == last.hearts_result[1]
                      rule_biased == rule_score > Pct(30)
                      distance == IF rule_score >= hearts.probabilities[1]
                                  THEN rule_score - hearts.probabilities[1]
                                  ELSE hearts.probabilities[1] - rule_score
                  IN  /\ (rule_biased = hearts.is_stereotype) => agreement = Pct(90)
                      /\ (rule_biased # hearts.is_stereotype) =>
                            /\ agreement >= Unit - distance
                            /\ agreement \in {Pct(30), Unit - distance}

\* C12 witness: the two sources disagree by more than 0.7 and the floor applies
C12_Witness ==
    /\ Returned
    /\ last.classifier_returned
    /\ (last.rule_result.overall_bias_score > Pct(30)) # last.hearts_result[1].is_stereotype
    /\ last.hearts_result[1].probabilities[1] - last.rule_result.overall_bias_score > Pct(70)
    /\ Result.source_agreement = Pct(30)

\* C12 witness: the two sources disagree and the distance term is the value
C12_WitnessDistance ==
    /\ Returned
    /\ last.classifier_returned
    /\ (last.rule_result.overall_bias_score > Pct(30)) # last.hearts_result[1].is_stereotype
    /\ Result.source_agreement > Pct(30)
    /\ Result.source_agreement < Pct(90)

\* C13: the confidence is the arithmetic mean of exactly the sub-scores that
\* are available: the classifier's confidence (if the classifier answered and
\* reported one), the explanation-consistency score (if the classifier
\* reported one) and the source agreement; it lies in [0, 1].
C13_ConfidenceMean ==
    Returned =>
        LET hearts_result == last.hearts_result
            available ==
                (IF hearts_result # None /\ hearts_result[1].confidence # None
                 THEN <<hearts_result[1].confidence[1]>> ELSE <<>>)
                \o (IF hearts_result # None /\ hearts_result[1].explanation_confidence # None
                    THEN <<hearts_result[1].explanation_confidence[1]>> ELSE <<>>)
                \o <<Result.source_agreement>>
        IN  /\ Result.confidence * Len(available) = Sum(available)
            /\ 0 <= Result.confidence /\ Result.confidence <= Unit

\* C14: a detect_biases call on a text returns the same score, the same
\* findings and the same framework list as the first call on that text did,
\* whichever texts the detector or an aggregator wrapping it analysed in
\* between.
C14_DetectorDeterministic ==
    report # None =>
        /\ first[report[1].prompt] # None
        /\ report[1].returned = first[report[1].prompt][1]

\* C14 witness: every text has been analysed, the latest report is a repeat,
\* and the list object of an earlier report was changed by the aggregator
\* after the detector returned it
C14_Witness ==
    /\ report # None
    /\ \A t \in Prompts : first[t] # None
    /\ last.called
    /\ last.hearts_result # None
    /\ last.rule_result # report[1].returned.result

\* C14 witness: the list object of the latest report no longer holds what
\* the detector returned
C14_WitnessChanged ==
    /\ report # None
    /\ alignments # report[1].returned.framework_alignments

\* C15: every edge returned by /api/graph/expand and /api/graph/expand-node
\* either has no target, or has both a source and a target; and no edge that
\* was returned with a target is returned without one (edges are identified by
\* their id).
C15_EdgeLifecycle ==
    /\ \A e \in edges : e.target # None => (e.source # "" /\ e.target[1] # "")
    /\ \A e \in edges : e.target = None => e.source # ""
    /\ \A e1 \in edges, e2 \in edges :
          (e1.target # None /\ e2.target = None) => e1.id # e2.id

\* C15 witness: a materialized edge and potential edges of its two ends have
\* been returned
C15_Witness ==
    \E e \in edges :
        /\ e.target # None
        /\ \E p \in edges : p.target = None /\ p.source = e.source
        /\ \E p \in edges : p.target = None /\ p.source = e.target[1]

\* a node returned by /api/graph/expand
IsRoot(n) == n.type = "original"

\* the latest request asked for a 'debias' path that a root offered
MaterializesRootDebias ==
    /\ response.endpoint = "expand-node"
    /\ response.status = 200
    /\ response.request.action = Some("debias")
    /\ \E r \in nodes : IsRoot(r) /\ r.id = response.request.node_id
    /\ \E p \in edges :
          /\ p.target = None /\ p.type = "debias"
          /\ p.source = response.request.node_id
          /\ p.option = response.request.option

C17_TreeShape ==
    /\ \A n \in nodes : ~IsRoot(n) =>
          /\ n.parent_id # None
          /\ Cardinality({e \in edges : e.target = Some(n.id)}) = 1
          /\ \A e \in edges : e.target = Some(n.id) => Some(e.source) = n.parent_id
    /\ \A n1 \in nodes, n2 \in nodes : n1.request # n2.request => n1.id # n2.id
    /\ \A e1 \in edges, e2 \in edges : e1.request # e2.request => e1.id # e2.id

\* C17 witness: two requests have each added a node, the second below the first
C17_Witness ==
    \E n1 \in nodes, n2 \in nodes :
        /\ n1.request # n2.request
        /\ n2.parent_id = Some(n1.id)

\* the request names a potential edge the caller was given
NamesPotentialEdge(request) ==
    /\ request.action \in {Some("bias"), Some("debias")}
    /\ \E p \in edges :
          /\ p.target = None
          /\ p.source = request.node_id
          /\ Some(p.type) = request.action
          /\ p.option = request.option

\* C18: an expand-node request that names no existing potential edge of the
\* named node is rejected and adds no node and no edge.
C18_RejectsUnknownEdge ==
    (response.endpoint = "expand-node" /\ ~NamesPotentialEdge(response.request)) =>
        /\ response.status # 200
        /\ response.nodes = {}
        /\ response.edges = {}

RECURSIVE Depth(_)
\* the nesting depth of previous_conversation
Depth(conv) ==
    IF conv.previous_conversation = None THEN 0
    ELSE 1 + Depth(conv.previous_conversation[1])

\* C19: the messages sent to the generator for the real prompt are the turns
\* of all ancestor injections in the order they took place (priming question,
\* priming answer, real prompt, answer each), then the new priming question,
\* its answer and the real prompt; followed by the new answer they are the
\* whole chain, nothing reordered, dropped or duplicated.
C19_ChronologicalOrder ==
    injected.status = "ok" =>
        sent \o <<Assistant(conversation[1].turn2_response)>> = turns

\* C20: a chain of n injections, each passed the previous conversation as a
\* dict or as a message list, gives a conversation with bias_count = n =
\* nesting depth + 1.
C20_BiasCount ==
    injected.status \in {"ok", "raised"} =>
        /\ injected.status = "ok"
        /\ conversation[1].bias_count = injected.n
        /\ conversation[1].bias_count = Depth(conversation[1]) + 1

\* the dicts met when following 'previous_conversation' from a in the heap
\* h, a itself included
RECURSIVE ChainFrom(_, _, _)
ChainFrom(h, a, seen) ==
    IF a \in seen THEN seen
    ELSE IF h[a] = None THEN seen \cup {a}
    ELSE ChainFrom(h, h[a][1], seen \cup {a})

\* the chain from a leads back to a dict already on it
RECURSIVE Cyclic(_, _, _)
Cyclic(h, a, seen) ==
    \/ a \in seen
    \/ h[a] # None /\ Cyclic(h, h[a][1], seen \cup {a})

C21_WitnessAcyclic ==
    /\ recon # None
    /\ recon[1].status = 200
    /\ recon[1].calls = MaxObjects

\* C22: if the generator call for the answer or the classification fails
\* during an expand or expand-node request, the request does not abort: the
\* response has status 200, and the node (with its connecting edge, for
\* expand-node) is returned in the shape of the failure-free case.
C22_NodeDespiteFailure ==
    /\ response.built.raised_in \notin {"answer", "classification"}
    /\ (response.built.llm_answer = "placeholder" \/ response.built.detection = "rule-based") =>
          /\ response.status = 200
          /\ Cardinality(response.nodes) = 1
          /\ response.endpoint = "expand-node" =>
                \E e \in response.edges, n \in response.nodes :
                    e.target = Some(n.id) /\ e.source = response.request.node_id

\* an expand-node request whose generator call for the answer raised was
\* answered with a node carrying the placeholder
C22_WitnessPlaceholder ==
    /\ response.endpoint = "expand-node"
    /\ response.status = 200
    /\ response.built.llm_answer = "placeholder"
    /\ response.built.detection = "rule-based"

\* C23: the rule-based score is min(1, W / 3.0), W being 0.30 per
\* demographic finding, 0.25 per cognitive finding, 0.20 per structural
\* finding, 0.15 per leading-question finding and 0.10 per assumption
\* finding of the report; the score is 0 exactly when the five lists are
\* empty; the empty text and a text of white space get score 0 and no finding.
C23_RuleScore ==
    analysis # None =>
        LET r == analysis[1].result
            W == 30 * r.demographic_biases + 25 * Cardinality(r.cognitive_biases)
                 + 20 * r.structural_biases + 15 * r.leading_questions
                 + 10 * r.assumption_laden
            no_findings == /\ r.demographic_biases = 0
                           /\ r.cognitive_biases = {}
                           /\ r.structural_biases = 0
                           /\ r.leading_questions = 0
                           /\ r.assumption_laden = 0
        IN  /\ 300 * r.overall_bias_score = Min(300 * Unit, W * Unit)
            /\ r.overall_bias_score = 0 <=> no_findings
            /\ analysis[1].text \in {EmptyText, WhitespaceText} =>
                  r.overall_bias_score = 0 /\ no_findings

\* C23 witness: the text of white space was analysed
C23_Witness ==
    /\ analysis # None
    /\ analysis[1].text = WhitespaceText

\* C23 witness: a text with findings of several kinds was analysed
C23_WitnessFindings ==
    /\ analysis # None
    /\ analysis[1].result.demographic_biases > 0
    /\ analysis[1].result.leading_questions > 0
    /\ analysis[1].result.overall_bias_score > 0

\* C23 witness: a text whose weighted count exceeds 3.0 was analysed
C23_WitnessClamped ==
    /\ analysis # None
    /\ analysis[1].result.demographic_biases = 8
    /\ analysis[1].result.overall_bias_score = Unit

\* C24: for "Why are women always so emotional?" the detector reports a
\* demographic finding of category gender and a cognitive finding of type
\* stereotypical_assumption, and the score is above 0.2.
C24_WomenSentence ==
    (analysis # None /\ analysis[1].text = Join(WomenSentence)) =>
        /\ "gender" \in analysis[1].categories
        /\ "stereotypical_assumption" \in analysis[1].result.cognitive_biases
        /\ analysis[1].result.overall_bias_score > Pct(20)

\* C25: for "What is the capital of France?" the detector reports no
\* demographic finding and no cognitive finding, and the score is exactly 0.
C25_FranceSentence ==
    (analysis # None /\ analysis[1].text = Join(FranceSentence)) =>
        /\ analysis[1].result.demographic_biases = 0
        /\ analysis[1].result.cognitive_biases = {}
        /\ analysis[1].result.overall_bias_score = 0

C27_ReportNotMutated ==
    report # None =>
        /\ alignments = report[1].returned.framework_alignments
        /\ Count(alignments, "HEARTS (King et al., 2024)") <= 1

\* the requests of client for endpoint admitted in the window_seconds up to
\* the admission of the i-th admitted request
AdmittedInWindow(i, window_seconds) ==
    { j \in 1..Len(admitted) :
        /\ admitted[j].client = admitted[i].client
        /\ admitted[j].endpoint = admitted[i].endpoint
        /\ admitted[j].ts <= admitted[i].ts
        /\ admitted[i].ts - admitted[j].ts < window_seconds }

\* C28: for every client and endpoint, no 3600-second window holds more
\* admitted requests than the per-hour limit and no 60-second window more
\* than the per-minute limit, and each admitted request is counted once: the
\* tracker's list holds one entry for an admitted request.
C28_RateLimited ==
    /\ \A i \in 1..Len(admitted) :
          /\ Cardinality(AdmittedInWindow(i, HourWindow)) <= IP_RATE_LIMIT_PER_HOUR
          /\ Cardinality(AdmittedInWindow(i, MinuteWindow)) <= IP_RATE_LIMIT_PER_MINUTE
    /\ (checked # None /\ checked[1].status = 200) =>
          Count(rate_limits[checked[1].client],
                [ts |-> now, ep |-> checked[1].endpoint])
            = Cardinality({ j \in 1..Len(admitted) :
                              /\ admitted[j].client = checked[1].client
                              /\ admitted[j].endpoint = checked[1].endpoint
                              /\ admitted[j].ts = now })

\* the entries of the list that carry the endpoint
EntriesOf(entries, endpoint) == SelectSeq(entries, LAMBDA entry : entry.ep = endpoint)

\* C29: a rate-limit check for one endpoint leaves the entries recorded for
\* every other endpoint of the same client as they were.
C29_OtherEndpointsKept ==
    [][ \A client \in Clients, endpoint \in Endpoints :
            (checked' # None /\ checked'[1].endpoint # endpoint) =>
                EntriesOf(rate_limits'[client], endpoint)
                    = EntriesOf(rate_limits[client], endpoint) ]_vars

\* C30: the message list sent to the generator for the second turn of a bias
\* injection (the list of the first turn is the same list without its last
\* two messages) starts with a user message, alternates between user and
\* assistant, and ends with a user message, whatever conversation the
\* injection was chained to.
C30_RolesAlternate ==
    sent # <<>> =>
        /\ sent[1].role = "user"
        /\ sent[Len(sent)].role = "user"
        /\ \A i \in 1..(Len(sent) - 1) : sent[i].role # sent[i + 1].role

====
